---- MODULE Spec2Model ----
(***************************************************************************)
(* custoodian: the semantic validator (internal/validator/validator.go)    *)
(* and the generation engine with its process-wide template cache          *)
(* (generator.go).                                                         *)
(*                                                                         *)
(* Conventions of the model                                                *)
(*   - a Go pointer or optional message is a sequence of length 0 (nil)    *)
(*     or 1 (the value);                                                   *)
(*   - a Go error is a sequence of frames, outermost first: <<>> is nil,   *)
(*     fmt.Errorf("ctx %s: %w", a, err) is <<ctx frame>> \o err; a frame   *)
(*     is [msg |-> the format text, names |-> the entity names it prints,  *)
(*     vals |-> the other values it prints];                               *)
(*   - strings whose shape the code inspects (ids checked by a regular     *)
(*     expression) are sequences of one-character strings; strings the     *)
(*     code only compares are TLA+ strings;                                *)
(*   - a CIDR string "a/b" is [ip |-> a, bits |-> b] over AddrBits-bit     *)
(*     addresses; bits outside 0..AddrBits is a string net.ParseCIDR       *)
(*     rejects.                                                            *)
(***************************************************************************)
EXTENDS Integers, Sequences, FiniteSets, TLC

VARIABLES
    cfg,            \* the Config under validation / generation
    vres,           \* ValidateConfig's result: <<>> before the call, <<r>> after
    now,            \* the wall clock, in minutes since the process started
    disk,           \* the local template directory: what LoadFromDirectory finds
    templateCache,  \* source -> <<>> or <<templateCacheEntry>>
    readers,        \* cacheMutex: the processes holding the read lock
    writer,         \* cacheMutex: <<>> or <<holder of the write lock>>
    pc,             \* per construction: where NewWithOptions stands
    gsrc,           \* per construction: g.templateSource
    gcache,         \* per construction: useCache (not opts.DisableCache)
    gtpl,           \* per construction: g.templates, <<>> or <<the unit parsed so far>>
    gret,           \* per construction: the *Generator NewWithOptions returns
    gerr,           \* per construction: the error NewWithOptions returns
    ghist,          \* per construction: what the cache read saw, whether it resolved
    cleaners,       \* goroutines started by `go g.cleanExpiredCache()`, not yet run
    lastGen,        \* the latest Generate call: <<>> or <<[tpl, cfg, files, err, rendered]>>
    prevGen,        \* some earlier Generate call, kept for comparison
    lastClean,      \* the latest run of cleanExpiredCache: <<>> or <<[at, before]>>
    lcall,          \* the loader call in progress: which function, with what source
    lpc,            \* the loader call: where it stands
    lnorm,          \* LoadFromGit: normalizedURL
    ltmp,           \* LoadFromGit: tempDir
    scratch,        \* the scratch directories that exist in the temporary directory
    llog,           \* the loader call: the functions it has called so far
    lres,           \* the loader call: what the template source resolved to
    lout            \* the loader call: <<>> or <<what it returned>>

vars == <<cfg, vres, now, disk, templateCache, readers, writer, pc, gsrc, gcache,
          gtpl, gret, gerr, ghist, cleaners, lastGen, prevGen, lastClean,
          lcall, lpc, lnorm, ltmp, scratch, llog, lres, lout>>

-----------------------------------------------------------------------------
(* Bounds of the model *)

MaxSubnets == 2       \* subnets per VPC
AddrBits == 2         \* width of an IP address (32 in net.ParseCIDR)
MaxTime == 6          \* the clock stops here (minutes)
NumProcs == 2         \* concurrent Generator constructions
MaxCleaners == 1      \* cleanExpiredCache goroutines started and not yet finished

-----------------------------------------------------------------------------
(* Go values *)

Nil == <<>>
IsNil(p) == p = <<>>
Ptr(v) == <<v>>
Deref(p) == p[1]

\* fmt.Errorf: a new error, and an error wrapping another with %w
Errorf(msg, names, vals) == <<[msg |-> msg, names |-> names, vals |-> vals]>>
Wrapf(msg, names, vals, err) == <<[msg |-> msg, names |-> names, vals |-> vals]>> \o err

\* the entity names an error message prints, over all its frames
RECURSIVE ErrNames(_)
ErrNames(err) ==
    IF err = <<>> THEN {}
    ELSE {err[1].names[i] : i \in DOMAIN err[1].names} \cup ErrNames(Tail(err))

\* the innermost frame of an error: the violation itself
Cause(err) == err[Len(err)]

Min(S) == CHOOSE x \in S : \A y \in S : x <= y

\* `for _, x := range s { if err := f(x); err != nil { return ... } }`:
\* the index of the first element whose check fails, 0 when none does
FirstBad(s, Bad(_)) ==
    LET bad == {i \in DOMAIN s : Bad(i)} IN IF bad = {} THEN 0 ELSE Min(bad)

Range(s) == {s[i] : i \in DOMAIN s}

-----------------------------------------------------------------------------
(* Characters and the regular expressions of the validator *)

Lower == {"a","b","c","d","e","f","g","h","i","j","k","l","m",
          "n","o","p","q","r","s","t","u","v","w","x","y","z"}
Upper == {"A","B","C","D","E","F","G","H","I","J","K","L","M",
          "N","O","P","Q","R","S","T","U","V","W","X","Y","Z"}
Digit == {"0","1","2","3","4","5","6","7","8","9"}

\* ^[a-z][a-z0-9-]*[a-z0-9]$
MatchIdPattern(id) ==
    /\ Len(id) >= 2
    /\ id[1] \in Lower
    /\ id[Len(id)] \in Lower \cup Digit
    /\ \A i \in 2..(Len(id) - 1) : id[i] \in Lower \cup Digit \cup {"-"}

isValidGCPProjectID(id) ==
    IF Len(id) < 6 \/ Len(id) > 30 THEN FALSE ELSE MatchIdPattern(id)

\* ^[0-9]{6}-[A-Z0-9]{6}-[A-Z0-9]{6}$
isValidBillingAccount(account) ==
    /\ Len(account) = 20
    /\ \A i \in 1..6 : account[i] \in Digit
    /\ account[7] = "-"
    /\ \A i \in 8..13 : account[i] \in Upper \cup Digit
    /\ account[14] = "-"
    /\ \A i \in 15..20 : account[i] \in Upper \cup Digit

isValidServiceAccountId(id) ==
    IF Len(id) < 6 \/ Len(id) > 30 THEN FALSE ELSE MatchIdPattern(id)

\* ^[a-z0-9][a-z0-9\-_.]*[a-z0-9]$
isValidBucketName(name) ==
    IF Len(name) < 3 \/ Len(name) > 63 THEN FALSE
    ELSE /\ name[1] \in Lower \cup Digit
         /\ name[Len(name)] \in Lower \cup Digit
         /\ \A i \in 2..(Len(name) - 1) :
                name[i] \in Lower \cup Digit \cup {"-", "_", "."}

-----------------------------------------------------------------------------
(* CIDR arithmetic: net.ParseCIDR, IPNet.Contains *)

RECURSIVE Pow2(_)
Pow2(n) == IF n = 0 THEN 1 ELSE 2 * Pow2(n - 1)

isValidCIDR(cidr) ==
    /\ cidr.bits \in 0..AddrBits
    /\ cidr.ip \in 0..(Pow2(AddrBits) - 1)

\* an *IPNet that keeps the address as written instead of masking it
ParseNet_Unmasked(cidr) ==
    [base |-> cidr.ip, size |-> Pow2(AddrBits - cidr.bits)]

\* the *IPNet of ParseCIDR: the address masked to the prefix, and the prefix
ParseNet(cidr) ==
    LET size == Pow2(AddrBits - cidr.bits)
    IN  [base |-> (cidr.ip \div size) * size, size |-> size]

NetContains(n, ip) == n.base <= ip /\ ip < n.base + n.size

\* cidrsOverlap that asks only whether the first network holds the second
cidrsOverlap_OneWay(cidr1, cidr2) ==
    IF ~isValidCIDR(cidr1) \/ ~isValidCIDR(cidr2) THEN FALSE
    ELSE NetContains(ParseNet(cidr1), ParseNet(cidr2).base)

cidrsOverlap(cidr1, cidr2) ==
    IF ~isValidCIDR(cidr1) \/ ~isValidCIDR(cidr2) THEN FALSE
    ELSE LET net1 == ParseNet(cidr1)
             net2 == ParseNet(cidr2)
         IN  NetContains(net1, net2.base) \/ NetContains(net2, net1.base)

-----------------------------------------------------------------------------
(* validator.go: the business rules, one operator per function *)

\* validateProject without its nil guard
validateProject_NilOk(project) ==
    IF IsNil(project) THEN Nil
    ELSE IF ~isValidGCPProjectID(Deref(project).Id)
    THEN Errorf("invalid project ID", <<>>, <<Deref(project).Id>>)
    ELSE Nil

validateProject(project) ==
    IF IsNil(project) THEN Errorf("project configuration is required", <<>>, <<>>)
    ELSE LET p == Deref(project) IN
         IF ~isValidGCPProjectID(p.Id)
         THEN Errorf("invalid project ID", <<>>, <<p.Id>>)
         ELSE IF p.BillingAccount # <<>> /\ ~isValidBillingAccount(p.BillingAccount)
         THEN Errorf("invalid billing account format", <<>>, <<p.BillingAccount>>)
         ELSE IF p.OrganizationId # "" /\ p.FolderId # ""
         THEN Errorf("organization_id and folder_id are mutually exclusive", <<>>, <<>>)
         ELSE Nil

\* validateReservedIP without the rule on global addresses
validateReservedIP_RegionalOnly(ip) ==
    IF ip.Type = "REGIONAL" /\ ip.Region = "REGION_UNSPECIFIED"
    THEN Errorf("regional reserved IP must specify a region", <<>>, <<>>)
    ELSE Nil

validateReservedIP(ip) ==
    IF ip.Type = "REGIONAL" /\ ip.Region = "REGION_UNSPECIFIED"
    THEN Errorf("regional reserved IP must specify a region", <<>>, <<>>)
    ELSE IF ip.Type = "GLOBAL" /\ ip.Region # "REGION_UNSPECIFIED"
    THEN Errorf("global reserved IP should not specify a region", <<>>, <<>>)
    ELSE Nil

validateSubnet(subnet) ==
    IF ~isValidCIDR(subnet.Cidr)
    THEN Errorf("invalid CIDR format", <<>>, <<subnet.Cidr>>)
    ELSE LET sr == subnet.SecondaryRanges
             Bad(i) == \/ ~isValidCIDR(sr[i].IpCidrRange)
                       \/ \E j \in 1..(i - 1) : sr[j].RangeName = sr[i].RangeName
             k == FirstBad(sr, Bad)
         IN  IF k = 0 THEN Nil
             ELSE IF ~isValidCIDR(sr[k].IpCidrRange)
             THEN Errorf("invalid secondary CIDR format", <<>>, <<sr[k].IpCidrRange>>)
             ELSE Errorf("duplicate secondary range name", <<sr[k].RangeName>>, <<>>)

\* the CIDR strings of usedCIDRs that the inner loop of validateVPC reports for
\* subnet i: every key other than the subnet's own that overlaps it
OverlapHits(subnets, i) ==
    {subnets[j].Cidr : j \in {j \in 1..i : /\ subnets[j].Cidr # subnets[i].Cidr
                                           /\ cidrsOverlap(subnets[i].Cidr, subnets[j].Cidr)}}

\* one element of a set of CIDR strings, as the randomized `range` over the map
\* reaches it first: r picks among the elements in a fixed order
RECURSIVE PickNth(_, _)
PickNth(S, n) ==
    LET m == CHOOSE x \in S : \A y \in S :
                 x.ip < y.ip \/ (x.ip = y.ip /\ x.bits <= y.bits)
    IN  IF n = 0 THEN m ELSE PickNth(S \ {m}, n - 1)

\* the loop body of validateVPC without the usedCIDRs[subnet.Cidr] test
validateVPCSubnetAt_NoDup(subnets, i, r) ==
    IF validateSubnet(subnets[i]) # Nil
    THEN Wrapf("invalid subnet", <<subnets[i].Name>>, <<>>, validateSubnet(subnets[i]))
    ELSE IF OverlapHits(subnets, i) # {}
    THEN Errorf("CIDR range in subnet overlaps with existing range",
                <<subnets[i].Name>>,
                <<subnets[i].Cidr,
                  PickNth(OverlapHits(subnets, i), r % Cardinality(OverlapHits(subnets, i)))>>)
    ELSE Nil

validateVPCSubnetAt(subnets, i, r) ==
    IF validateSubnet(subnets[i]) # Nil
    THEN Wrapf("invalid subnet", <<subnets[i].Name>>, <<>>, validateSubnet(subnets[i]))
    ELSE IF \E j \in 1..(i - 1) : subnets[j].Cidr = subnets[i].Cidr
    THEN Errorf("duplicate CIDR range in subnet", <<subnets[i].Name>>, <<subnets[i].Cidr>>)
    ELSE IF OverlapHits(subnets, i) # {}
    THEN LET hits == OverlapHits(subnets, i)
         IN  Errorf("CIDR range in subnet overlaps with existing range",
                    <<subnets[i].Name>>,
                    <<subnets[i].Cidr, PickNth(hits, r % Cardinality(hits))>>)
    ELSE Nil

validateVPC(vpc, r) ==
    LET s == vpc.Subnets
        Bad(i) == validateVPCSubnetAt(s, i, r) # Nil
        k == FirstBad(s, Bad)
    IN  IF k = 0 THEN Nil ELSE validateVPCSubnetAt(s, k, r)

\* validateFirewallRule without the test of the source tags of an EGRESS rule
validateFirewallRule_NoTags(rule) ==
    IF rule.Direction = "INGRESS" /\ Len(rule.DestinationRanges) > 0
    THEN Errorf("INGRESS rules cannot have destination_ranges", <<>>, <<>>)
    ELSE IF rule.Direction = "EGRESS" /\ Len(rule.SourceRanges) > 0
    THEN Errorf("EGRESS rules cannot have source_ranges", <<>>, <<>>)
    ELSE IF Len(rule.Allow) > 0 /\ Len(rule.Deny) > 0
    THEN Errorf("firewall rule cannot have both allow and deny blocks", <<>>, <<>>)
    ELSE IF Len(rule.Allow) = 0 /\ Len(rule.Deny) = 0
    THEN Errorf("firewall rule must have either allow or deny block", <<>>, <<>>)
    ELSE IF \E i \in DOMAIN rule.SourceRanges : ~isValidCIDR(rule.SourceRanges[i])
    THEN Errorf("invalid source range CIDR", <<>>, <<>>)
    ELSE IF \E i \in DOMAIN rule.DestinationRanges : ~isValidCIDR(rule.DestinationRanges[i])
    THEN Errorf("invalid destination range CIDR", <<>>, <<>>)
    ELSE Nil

validateFirewallRule(rule) ==
    IF rule.Direction = "INGRESS" /\ Len(rule.DestinationRanges) > 0
    THEN Errorf("INGRESS rules cannot have destination_ranges", <<>>, <<>>)
    ELSE IF rule.Direction = "EGRESS" /\ Len(rule.SourceRanges) > 0
    THEN Errorf("EGRESS rules cannot have source_ranges", <<>>, <<>>)
    ELSE IF rule.Direction = "EGRESS" /\ Len(rule.SourceTags) > 0
    THEN Errorf("EGRESS rules cannot have source_tags", <<>>, <<>>)
    ELSE IF Len(rule.Allow) > 0 /\ Len(rule.Deny) > 0
    THEN Errorf("firewall rule cannot have both allow and deny blocks", <<>>, <<>>)
    ELSE IF Len(rule.Allow) = 0 /\ Len(rule.Deny) = 0
    THEN Errorf("firewall rule must have either allow or deny block", <<>>, <<>>)
    ELSE LET sb == FirstBad(rule.SourceRanges,
                            LAMBDA i : ~isValidCIDR(rule.SourceRanges[i]))
             db == FirstBad(rule.DestinationRanges,
                            LAMBDA i : ~isValidCIDR(rule.DestinationRanges[i]))
         IN  IF sb # 0
             THEN Errorf("invalid source range CIDR", <<>>, <<rule.SourceRanges[sb]>>)
             ELSE IF db # 0
             THEN Errorf("invalid destination range CIDR", <<>>, <<rule.DestinationRanges[db]>>)
             ELSE Nil

validateNATGateway(nat) ==
    IF nat.NatIpAllocateOption \notin {"MANUAL_ONLY", "AUTO_ONLY"}
    THEN Errorf("invalid NAT IP allocate option", <<>>, <<nat.NatIpAllocateOption>>)
    ELSE IF nat.NatIpAllocateOption = "MANUAL_ONLY" /\ Len(nat.NatIps) = 0
    THEN Errorf("MANUAL_ONLY NAT IP allocation requires nat_ips to be specified", <<>>, <<>>)
    ELSE Nil

validateNetworking(networking, r) ==
    LET ips == networking.ReservedIps
        vpcs == networking.Vpcs
        rules == networking.FirewallRules
        nats == networking.NatGateways
        ib == FirstBad(ips, LAMBDA i : validateReservedIP(ips[i]) # Nil)
        vb == FirstBad(vpcs, LAMBDA i : validateVPC(vpcs[i], r) # Nil)
        fb == FirstBad(rules, LAMBDA i : validateFirewallRule(rules[i]) # Nil)
        nb == FirstBad(nats, LAMBDA i : validateNATGateway(nats[i]) # Nil)
    IN  IF ib # 0
        THEN Wrapf("invalid reserved IP", <<ips[ib].Name>>, <<>>, validateReservedIP(ips[ib]))
        ELSE IF vb # 0
        THEN Wrapf("invalid VPC", <<vpcs[vb].Name>>, <<>>, validateVPC(vpcs[vb], r))
        ELSE IF fb # 0
        THEN Wrapf("invalid firewall rule", <<rules[fb].Name>>, <<>>,
                   validateFirewallRule(rules[fb]))
        ELSE IF nb # 0
        THEN Wrapf("invalid NAT gateway", <<nats[nb].Name>>, <<>>, validateNATGateway(nats[nb]))
        ELSE Nil

validateInstanceTemplate(template) ==
    IF template.DiskSizeGb < 10
    THEN Errorf("disk size must be at least 10 GB", <<>>, <<>>)
    ELSE IF \E i \in DOMAIN template.NetworkInterfaces :
                /\ template.NetworkInterfaces[i].Network = ""
                /\ template.NetworkInterfaces[i].Subnetwork = ""
    THEN Errorf("network interface must specify either network or subnetwork", <<>>, <<>>)
    ELSE Nil

\* a float32 in hundredths, or NaN; every ordered comparison with NaN is false
Float(v) == [nan |-> FALSE, val |-> v]
NaN == [nan |-> TRUE, val |-> 0]
FloatLeq(x, k) == ~x.nan /\ x.val <= k
FloatGt(x, k) == ~x.nan /\ x.val > k

validateInstanceGroup(group) ==
    IF IsNil(group.AutoScaling) THEN Nil
    ELSE LET a == Deref(group.AutoScaling) IN
         IF a.Min > a.Max
         THEN Errorf("auto scaling min cannot be greater than max", <<>>, <<a.Min, a.Max>>)
         ELSE IF FloatLeq(a.CpuTarget, 0) \/ FloatGt(a.CpuTarget, 100)
         THEN Errorf("CPU target must be between 0 and 1", <<>>, <<a.CpuTarget>>)
         ELSE Nil

\* the keys of templateNames once the first loop of validateCompute has run
TemplateNames(compute) ==
    {compute.InstanceTemplates[i].Name : i \in DOMAIN compute.InstanceTemplates}

validateCompute(compute) ==
    LET ts == compute.InstanceTemplates
        gs == compute.InstanceGroups
        TBad(i) == \/ \E j \in 1..(i - 1) : ts[j].Name = ts[i].Name
                   \/ validateInstanceTemplate(ts[i]) # Nil
        tb == FirstBad(ts, TBad)
        GBad(i) == \/ validateInstanceGroup(gs[i]) # Nil
                   \/ gs[i].Template \notin TemplateNames(compute)
        gb == FirstBad(gs, GBad)
    IN  IF tb # 0
        THEN IF \E j \in 1..(tb - 1) : ts[j].Name = ts[tb].Name
             THEN Errorf("duplicate instance template name", <<ts[tb].Name>>, <<>>)
             ELSE Wrapf("invalid instance template", <<ts[tb].Name>>, <<>>,
                        validateInstanceTemplate(ts[tb]))
        ELSE IF gb # 0
        THEN IF validateInstanceGroup(gs[gb]) # Nil
             THEN Wrapf("invalid instance group", <<gs[gb].Name>>, <<>>,
                        validateInstanceGroup(gs[gb]))
             ELSE Errorf("instance group references unknown template",
                         <<gs[gb].Name, gs[gb].Template>>, <<>>)
        ELSE Nil

validateHealthCheck(hc) ==
    IF hc.Port <= 0 \/ hc.Port > 65535
    THEN Errorf("invalid port", <<>>, <<hc.Port>>)
    ELSE IF hc.TimeoutSec >= hc.CheckIntervalSec
    THEN Errorf("timeout_sec must be less than check_interval_sec",
                <<>>, <<hc.TimeoutSec, hc.CheckIntervalSec>>)
    ELSE Nil

validateLoadBalancer(lb) ==
    IF ~IsNil(lb.HealthCheck) /\ validateHealthCheck(Deref(lb.HealthCheck)) # Nil
    THEN Wrapf("invalid health check", <<>>, <<>>,
               validateHealthCheck(Deref(lb.HealthCheck)))
    ELSE Nil

validateLoadBalancers(lbs) ==
    LET b == FirstBad(lbs, LAMBDA i : validateLoadBalancer(lbs[i]) # Nil)
    IN  IF b = 0 THEN Nil
        ELSE Wrapf("invalid load balancer", <<lbs[b].Name>>, <<>>,
                   validateLoadBalancer(lbs[b]))

validateServiceAccount(sa) ==
    IF ~isValidServiceAccountId(sa.AccountId)
    THEN Errorf("invalid service account ID format", <<>>, <<sa.AccountId>>)
    ELSE Nil

validateCustomRole(role) ==
    IF Len(role.Permissions) = 0
    THEN Errorf("custom role must have at least one permission", <<>>, <<>>)
    ELSE IF role.Stage # "" /\ role.Stage \notin {"ALPHA", "BETA", "GA", "DEPRECATED"}
    THEN Errorf("invalid stage", <<>>, <<role.Stage>>)
    ELSE Nil

validateIAM(iam) ==
    LET sas == iam.ServiceAccounts
        rs == iam.CustomRoles
        SBad(i) == \/ \E j \in 1..(i - 1) : sas[j].AccountId = sas[i].AccountId
                   \/ validateServiceAccount(sas[i]) # Nil
        sb == FirstBad(sas, SBad)
        RBad(i) == \/ \E j \in 1..(i - 1) : rs[j].RoleId = rs[i].RoleId
                   \/ validateCustomRole(rs[i]) # Nil
        rb == FirstBad(rs, RBad)
    IN  IF sb # 0
        THEN IF \E j \in 1..(sb - 1) : sas[j].AccountId = sas[sb].AccountId
             THEN Errorf("duplicate service account ID", <<>>, <<sas[sb].AccountId>>)
             ELSE Wrapf("invalid service account", <<>>, <<sas[sb].AccountId>>,
                        validateServiceAccount(sas[sb]))
        ELSE IF rb # 0
        THEN IF \E j \in 1..(rb - 1) : rs[j].RoleId = rs[rb].RoleId
             THEN Errorf("duplicate custom role ID", <<rs[rb].RoleId>>, <<>>)
             ELSE Wrapf("invalid custom role", <<rs[rb].RoleId>>, <<>>,
                        validateCustomRole(rs[rb]))
        ELSE Nil

validateStorageBucket(bucket) ==
    IF ~isValidBucketName(bucket.Name)
    THEN Errorf("invalid bucket name format", <<>>, <<bucket.Name>>)
    ELSE IF /\ bucket.StorageClass # ""
            /\ bucket.StorageClass \notin {"STANDARD", "NEARLINE", "COLDLINE", "ARCHIVE"}
    THEN Errorf("invalid storage class", <<>>, <<bucket.StorageClass>>)
    ELSE Nil

\* validateStorage without the bucketNames map
validateStorage_NoDup(storage) ==
    LET bs == storage.Buckets
        b == FirstBad(bs, LAMBDA i : validateStorageBucket(bs[i]) # Nil)
    IN  IF b = 0 THEN Nil
        ELSE Wrapf("invalid storage bucket", <<>>, <<bs[b].Name>>,
                   validateStorageBucket(bs[b]))

validateStorage(storage) ==
    LET bs == storage.Buckets
        Bad(i) == \/ \E j \in 1..(i - 1) : bs[j].Name = bs[i].Name
                  \/ validateStorageBucket(bs[i]) # Nil
        b == FirstBad(bs, Bad)
    IN  IF b = 0 THEN Nil
        ELSE IF \E j \in 1..(b - 1) : bs[j].Name = bs[b].Name
        THEN Errorf("duplicate bucket name", <<>>, <<bs[b].Name>>)
        ELSE Wrapf("invalid storage bucket", <<>>, <<bs[b].Name>>,
                   validateStorageBucket(bs[b]))

\* pass one of the cross-reference check: the registries of declared names
collectResourceNames(c) ==
    [reservedIPs |->
        IF IsNil(c.Networking) THEN {}
        ELSE {Deref(c.Networking).ReservedIps[i].Name :
                 i \in DOMAIN Deref(c.Networking).ReservedIps},
     networks |->
        IF IsNil(c.Networking) THEN {}
        ELSE {Deref(c.Networking).Vpcs[i].Name : i \in DOMAIN Deref(c.Networking).Vpcs},
     subnets |->
        IF IsNil(c.Networking) THEN {}
        ELSE UNION {{Deref(c.Networking).Vpcs[i].Subnets[j].Name :
                        j \in DOMAIN Deref(c.Networking).Vpcs[i].Subnets} :
                    i \in DOMAIN Deref(c.Networking).Vpcs},
     instanceGroups |->
        IF IsNil(c.Compute) THEN {}
        ELSE {Deref(c.Compute).InstanceGroups[i].Name :
                 i \in DOMAIN Deref(c.Compute).InstanceGroups},
     serviceAccounts |->
        IF IsNil(c.Iam) THEN {}
        ELSE {Deref(c.Iam).ServiceAccounts[i].AccountId :
                 i \in DOMAIN Deref(c.Iam).ServiceAccounts}]

\* pass two with the backend test left out
validateCrossReferences_IpOnly(c) ==
    LET resources == collectResourceNames(c)
        lbs == c.LoadBalancers
        b == FirstBad(lbs, LAMBDA i : lbs[i].Ip # "" /\ lbs[i].Ip \notin resources.reservedIPs)
    IN  IF b = 0 THEN Nil
        ELSE Errorf("load balancer references unknown reserved IP",
                    <<lbs[b].Name, lbs[b].Ip>>, <<>>)

\* pass two: the reference fields the code checks against a registry
validateCrossReferences(c) ==
    LET resources == collectResourceNames(c)
        lbs == c.LoadBalancers
        Bad(i) == \/ (lbs[i].Ip # "" /\ lbs[i].Ip \notin resources.reservedIPs)
                  \/ lbs[i].Backend \notin resources.instanceGroups
        b == FirstBad(lbs, Bad)
    IN  IF b = 0 THEN Nil
        ELSE IF lbs[b].Ip # "" /\ lbs[b].Ip \notin resources.reservedIPs
        THEN Errorf("load balancer references unknown reserved IP",
                    <<lbs[b].Name, lbs[b].Ip>>, <<>>)
        ELSE Errorf("load balancer references unknown backend",
                    <<lbs[b].Name, lbs[b].Backend>>, <<>>)

\* The phases of ValidateConfig in the order the code runs them. A phase is
\* evaluated when every earlier one returned nil; PhaseRuns says whether the
\* code calls the phase at all for this config (its `if cfg.X != nil` guard).
Phases == <<"proto", "project", "networking", "compute", "load balancer",
            "IAM", "storage", "cross-reference">>

PhaseRuns(c, ph) ==
    CASE ph = "networking" -> ~IsNil(c.Networking)
      [] ph = "compute" -> ~IsNil(c.Compute)
      [] ph = "load balancer" -> Len(c.LoadBalancers) > 0
      [] ph = "IAM" -> ~IsNil(c.Iam)
      [] ph = "storage" -> ~IsNil(c.Storage)
      [] OTHER -> TRUE

\* validator.Validate(cfg): the structural constraint engine is an external
\* collaborator; its verdict on the config is carried by the config
protoValidate(c) ==
    IF c.Structural = "ok" THEN Nil ELSE Errorf("structural constraint violated", <<>>, <<>>)

PhaseErr(c, ph, r) ==
    CASE ph = "proto" -> protoValidate(c)
      [] ph = "project" -> validateProject(c.Project)
      [] ph = "networking" -> validateNetworking(Deref(c.Networking), r)
      [] ph = "compute" -> validateCompute(Deref(c.Compute))
      [] ph = "load balancer" -> validateLoadBalancers(c.LoadBalancers)
      [] ph = "IAM" -> validateIAM(Deref(c.Iam))
      [] ph = "storage" -> validateStorage(Deref(c.Storage))
      [] ph = "cross-reference" -> validateCrossReferences(c)

\* ValidateConfig that runs every phase and returns the last error
RECURSIVE ValidateFrom_LastError(_, _, _, _)
ValidateFrom_LastError(c, k, r, called) ==
    IF k > Len(Phases) THEN [err |-> Nil, called |-> called]
    ELSE IF ~PhaseRuns(c, Phases[k]) THEN ValidateFrom_LastError(c, k + 1, r, called)
    ELSE LET e == PhaseErr(c, Phases[k], r)
             rest == ValidateFrom_LastError(c, k + 1, r, Append(called, Phases[k]))
         IN  IF e # Nil /\ rest.err = Nil
             THEN [err |-> Wrapf("validation failed", <<Phases[k]>>, <<>>, e),
                   called |-> rest.called]
             ELSE rest

\* ValidateConfig from phase k on: the phases called so far and the error
RECURSIVE ValidateFrom(_, _, _, _)
ValidateFrom(c, k, r, called) ==
    IF k > Len(Phases) THEN [err |-> Nil, called |-> called]
    ELSE IF ~PhaseRuns(c, Phases[k]) THEN ValidateFrom(c, k + 1, r, called)
    ELSE LET e == PhaseErr(c, Phases[k], r) IN
         IF e # Nil
         THEN [err |-> Wrapf("validation failed", <<Phases[k]>>, <<>>, e),
               called |-> Append(called, Phases[k])]
         ELSE ValidateFrom(c, k + 1, r, Append(called, Phases[k]))

ValidateConfig(c, r) == ValidateFrom(c, 1, r, <<>>)

Valid(c) == \A r \in 0..(MaxSubnets - 1) : ValidateConfig(c, r).err = Nil

-----------------------------------------------------------------------------
(* The configs the model runs on.  ConfigSet is a union of families, each   *)
(* varying some sections over every combination of a small domain.          *)

RandSeeds == 0..(MaxSubnets - 1)

IdGood == <<"t","e","s","t","-","p","r","o","j","-","1">>
IdShort == <<"s","h","o","r","t">>
IdUpper == <<"T","e","s","t","-","P","r","o","j">>
IdDash == <<"p","r","o","j","e","c","t","-">>
BillingGood == <<"1","2","3","4","5","6","-","A","B","C","D","E","F","-",
                 "G","H","I","J","K","L">>
BillingBad == <<"1","2","3","4","5","6","-","a","b","c","d","e","f","-",
                "G","H","I","J","K","L">>
SaGood == <<"s","v","c","-","a","p","p">>
SaBad == <<"S","V","C">>
SaGhost == <<"g","h","o","s","t","-","s","a">>
BucketGood == <<"m","y","_","b","u","c","k","e","t",".","1">>
BucketBad == <<"-","b">>

ProjectSet ==
    [Id : {IdGood, IdShort, IdUpper, IdDash},
     BillingAccount : {<<>>, BillingGood, BillingBad},
     OrganizationId : {"", "org1"},
     FolderId : {"", "folder1"}]

GoodProject ==
    [Id |-> IdGood, BillingAccount |-> BillingGood, OrganizationId |-> "org1",
     FolderId |-> ""]

\* the CIDR strings of the subnets: the four lowest addresses with every
\* prefix length 0..AddrBits and one that ParseCIDR rejects
CidrStrings == [ip : 0..3, bits : 0..(AddrBits + 1)]

SubnetNames == <<"subnet-a", "subnet-b", "subnet-c", "subnet-d">>

\* the subnet lists of length n: the i-th subnet is named SubnetNames[i]
SubnetLists(n) ==
    {[i \in 1..n |-> [Name |-> SubnetNames[i], Cidr |-> f[i], SecondaryRanges |-> <<>>]] :
        f \in [1..n -> CidrStrings]}

NoNetworking ==
    [ReservedIps |-> <<>>, Vpcs |-> <<>>, FirewallRules |-> <<>>, NatGateways |-> <<>>]

GlobalIp(n) == [Name |-> n, Type |-> "GLOBAL", Region |-> "REGION_UNSPECIFIED"]

GoodRule ==
    [Name |-> "allow-http", Direction |-> "INGRESS",
     SourceRanges |-> <<[ip |-> 0, bits |-> 0]>>, DestinationRanges |-> <<>>,
     SourceTags |-> <<>>, Allow |-> <<"tcp">>, Deny |-> <<>>]

NetworkingGood ==
    [ReservedIps |-> <<GlobalIp("ip1")>>,
     Vpcs |-> <<[Name |-> "net1",
                 Subnets |-> <<[Name |-> "subnet-a", Cidr |-> [ip |-> 0, bits |-> 1],
                                SecondaryRanges |-> <<>>]>>]>>,
     FirewallRules |-> <<GoodRule>>,
     NatGateways |-> <<[Name |-> "nat1", NatIpAllocateOption |-> "AUTO_ONLY",
                        NatIps |-> <<>>]>>]

NetworkingBad ==
    [NetworkingGood EXCEPT
        !.ReservedIps = <<[Name |-> "ip1", Type |-> "REGIONAL",
                           Region |-> "REGION_UNSPECIFIED"]>>]

Iface(n, sn) == [Network |-> n, Subnetwork |-> sn]

Template(n, net, sa) ==
    [Name |-> n, DiskSizeGb |-> 10, NetworkInterfaces |-> <<Iface(net, "")>>,
     ServiceAccount |-> sa]

Group(n, t) == [Name |-> n, Template |-> t, AutoScaling |-> Nil]

ComputeGood ==
    [InstanceTemplates |-> <<Template("t1", "net1", <<>>)>>,
     InstanceGroups |->
        <<[Name |-> "g1", Template |-> "t1",
           AutoScaling |-> Ptr([Min |-> 1, Max |-> 3, CpuTarget |-> Float(60)])]>>,
     Instances |-> <<>>]

ComputeBad ==
    [ComputeGood EXCEPT !.InstanceTemplates[1].DiskSizeGb = 5]

Lb(n, ip, backend) == [Name |-> n, Ip |-> ip, Backend |-> backend, HealthCheck |-> Nil]

LbGood ==
    [Name |-> "lb1", Ip |-> "", Backend |-> "g1",
     HealthCheck |-> Ptr([Port |-> 80, CheckIntervalSec |-> 10, TimeoutSec |-> 5])]

LbBadCheck ==
    [LbGood EXCEPT !.HealthCheck = Ptr([Port |-> 80, CheckIntervalSec |-> 5,
                                        TimeoutSec |-> 5])]

IamGood ==
    [ServiceAccounts |-> <<[AccountId |-> SaGood]>>,
     CustomRoles |-> <<[RoleId |-> "viewer", Permissions |-> <<"x.get">>,
                        Stage |-> "GA"]>>]

IamBad == [IamGood EXCEPT !.CustomRoles[1].Permissions = <<>>]

StorageGood == [Buckets |-> <<[Name |-> BucketGood, StorageClass |-> "STANDARD"]>>]

StorageBad == [Buckets |-> <<[Name |-> BucketGood, StorageClass |-> "HOT"]>>]

Instance(n, ifaces) == [Name |-> n, NetworkInterfaces |-> ifaces]

\* compute sections whose interfaces name networks and subnetworks: declared
\* in Networking or not, repeated, on templates and on instances, or none
ComputeRefs ==
    {[ComputeGood EXCEPT !.InstanceTemplates[1].NetworkInterfaces =
                             <<Iface("ghost", "sub-x"), Iface("ghost", "")>>],
     [ComputeGood EXCEPT !.InstanceTemplates = <<>>, !.InstanceGroups = <<>>,
                         !.Instances = <<Instance("vm1", <<Iface("", "sub-x")>>)>>],
     [ComputeGood EXCEPT !.Instances = <<Instance("vm1", <<Iface("net1", "sub-a")>>),
                                         Instance("vm2", <<Iface("", "")>>)>>],
     [ComputeGood EXCEPT !.InstanceTemplates[1].NetworkInterfaces = <<Iface("", "")>>]}

BaseConfig ==
    [Structural |-> "ok", Project |-> Ptr(GoodProject), Networking |-> Nil,
     Compute |-> Nil, LoadBalancers |-> <<>>, Iam |-> Nil, Storage |-> Nil,
     CloudRun |-> Nil, Databases |-> Nil]

\* every section absent, sound or in violation of one rule of its phase
PhaseFamily ==
    [Structural : {"ok", "violation"},
     Project : {Nil, Ptr(GoodProject), Ptr([GoodProject EXCEPT !.Id = IdShort])},
     Networking : {Nil, Ptr(NetworkingGood), Ptr(NetworkingBad)},
     Compute : {Nil, Ptr(ComputeGood), Ptr(ComputeBad)},
     LoadBalancers : {<<>>, <<LbGood>>, <<LbBadCheck>>, <<Lb("lb1", "", "ghost")>>},
     Iam : {Nil, Ptr(IamGood), Ptr(IamBad)},
     Storage : {Nil, Ptr(StorageGood), Ptr(StorageBad)},
     CloudRun : {Nil},
     Databases : {Nil}]

\* every project
ProjectFamily ==
    {[BaseConfig EXCEPT !.Project = Ptr(p)] : p \in ProjectSet}

\* one VPC with up to MaxSubnets subnets over every CIDR string
SubnetFamily ==
    {[BaseConfig EXCEPT
        !.Networking = Ptr([NoNetworking EXCEPT
                               !.Vpcs = <<[Name |-> "net1", Subnets |-> s]>>])] :
        s \in UNION {SubnetLists(n) : n \in 0..MaxSubnets}}

\* references between sections: reserved IPs, instance templates, instance
\* groups, network interfaces and load balancers over small name sets
RefNetworkings ==
    {Nil} \cup
    {Ptr([NoNetworking EXCEPT
             !.ReservedIps = ips,
             !.Vpcs = <<[Name |-> "net1", Subnets |-> <<>>]>>]) :
        ips \in {<<>>, <<GlobalIp("ip1")>>, <<GlobalIp("ip1"), GlobalIp("ip2")>>}}

RefGroupLists ==
    UNION {[1..n -> {Group(g, t) : g \in {"g1", "g2"}, t \in {"t1", "t2"}}] : n \in 0..2}

RefComputes ==
    {Nil} \cup
    {Ptr([InstanceTemplates |-> ts, InstanceGroups |-> gs, Instances |-> <<>>]) :
        ts \in {<<>>, <<Template("t1", "net1", <<>>)>>,
                <<Template("t1", "ghost-net", SaGhost), Template("t2", "net1", <<>>)>>},
        gs \in RefGroupLists}

LbNames == <<"lb1", "lb2">>

RefLbLists ==
    UNION {{[i \in 1..n |-> Lb(LbNames[i], f[i].ip, f[i].backend)] :
               f \in [1..n -> [ip : {"", "ip1", "ip2"}, backend : {"g1", "g2"}]]} :
           n \in 0..2}

RefFamily ==
    {[BaseConfig EXCEPT !.Networking = nw, !.Compute = c, !.LoadBalancers = lbs] :
        nw \in RefNetworkings, c \in RefComputes, lbs \in RefLbLists}

\* two service accounts, two custom roles or two buckets: sound ones, one
\* that breaks a rule of its own, and the same identifier twice
SaGood2 == <<"s","v","c","-","w","e","b">>
BucketGood2 == <<"l","o","g","s","-","2">>

PairFamily ==
    {[BaseConfig EXCEPT !.Iam = Ptr([IamGood EXCEPT !.ServiceAccounts = sas])] :
        sas \in [1..2 -> {[AccountId |-> a] : a \in {SaGood, SaGood2, SaBad}}]}
    \cup
    {[BaseConfig EXCEPT !.Iam = Ptr([IamGood EXCEPT !.CustomRoles = rs])] :
        rs \in [1..2 -> {[RoleId |-> "viewer", Permissions |-> <<"x.get">>, Stage |-> "GA"],
                         [RoleId |-> "editor", Permissions |-> <<"x.set">>, Stage |-> ""],
                         [RoleId |-> "broken", Permissions |-> <<>>, Stage |-> "GA"]}]}
    \cup
    {[BaseConfig EXCEPT !.Storage = Ptr([Buckets |-> bs])] :
        bs \in [1..2 -> {[Name |-> BucketGood, StorageClass |-> "STANDARD"],
                         [Name |-> BucketGood2, StorageClass |-> ""],
                         [Name |-> BucketGood2, StorageClass |-> "HOT"]}]}

\* one firewall rule over every combination of direction, ranges, tags and
\* allow/deny blocks, alone and after a sound rule
CidrGood == [ip |-> 0, bits |-> 0]
CidrBad == [ip |-> 0, bits |-> AddrBits + 1]

RuleSet ==
    [Name : {"rule-x"}, Direction : {"INGRESS", "EGRESS", ""},
     SourceRanges : {<<>>, <<CidrGood>>, <<CidrBad>>},
     DestinationRanges : {<<>>, <<CidrGood>>, <<CidrBad>>},
     SourceTags : {<<>>, <<"web">>},
     Allow : {<<>>, <<"tcp">>}, Deny : {<<>>, <<"udp">>}]

FirewallFamily ==
    {[BaseConfig EXCEPT !.Networking = Ptr([NoNetworking EXCEPT !.FirewallRules = rs])] :
        rs \in {<<ru>> : ru \in RuleSet} \cup {<<GoodRule, ru>> : ru \in RuleSet}}

\* one or two reserved addresses over every type and with or without a region
ReservedIpSet(n) ==
    [Name : {n}, Type : {"RESERVED_IP_TYPE_UNSPECIFIED", "REGIONAL", "GLOBAL"},
     Region : {"REGION_UNSPECIFIED", "US_CENTRAL1"}]

ReservedIpFamily ==
    {[BaseConfig EXCEPT !.Networking = Ptr([NoNetworking EXCEPT !.ReservedIps = ips])] :
        ips \in {<<a>> : a \in ReservedIpSet("ip1")}
                \cup {<<a, b>> : a \in ReservedIpSet("ip1"), b \in ReservedIpSet("ip2")}}

\* one instance group without auto scaling or with every combination of
\* replica bounds and CPU target: below, at and above both ends, and NaN
CpuTargets == {Float(v) : v \in {0 - 5, 0, 1, 60, 100, 101}} \cup {NaN}

AutoScalingFamily ==
    {[BaseConfig EXCEPT
        !.Compute = Ptr([ComputeGood EXCEPT !.InstanceGroups[1].AutoScaling = a])] :
        a \in {Nil} \cup {Ptr(s) : s \in [Min : 0..2, Max : 0..2, CpuTarget : CpuTargets]}}

\* two sound instance templates under every pair of names
TemplatePairFamily ==
    {[BaseConfig EXCEPT
        !.Compute = Ptr([InstanceTemplates |-> <<Template(a, "net1", <<>>),
                                                 Template(b, "net1", <<>>)>>,
                         InstanceGroups |-> <<>>, Instances |-> <<>>])] :
        a \in {"t1", "t2"}, b \in {"t1", "t2"}}

ConfigSet ==
    PhaseFamily \cup ProjectFamily \cup SubnetFamily \cup RefFamily \cup PairFamily
    \cup FirewallFamily \cup ReservedIpFamily \cup AutoScalingFamily
    \cup TemplatePairFamily

-----------------------------------------------------------------------------
(* Templates.  A template body is known by what the engine does with it:    *)
(*   "text"  parses, and renders a non-empty text of its data               *)
(*   "empty" parses, and renders the empty string                           *)
(*   "fail"  parses, and fails when executed (a missing field, say)         *)
(*   "bad"   does not parse                                                 *)
(* A template set (name -> body) is a function; a compiled unit is the      *)
(* template set it was parsed from.                                         *)

SectionTemplates ==
    <<"project.tf", "networking.tf", "compute.tf", "load_balancers.tf", "iam.tf",
      "storage.tf", "cloud_run.tf", "databases.tf", "variables.tf", "outputs.tf">>

TemplateNameSet == Range(SectionTemplates)

EmptyMap == [n \in {} |-> n]

\* templates.GetBuiltinTemplates(): the embedded set, one body per section
GetBuiltinTemplates == [n \in TemplateNameSet |-> "text"]

\* what a directory can hold: nothing at all (the path does not exist), or a
\* set of .tf files that is the full set with at most one file missing or
\* replaced by a body of another kind, or no .tf file
DirMissing == [exists |-> FALSE, files |-> EmptyMap]
DirOf(files) == [exists |-> TRUE, files |-> files]
DirFull == DirOf(GetBuiltinTemplates)

DirCatalog ==
    {DirMissing, DirOf(EmptyMap), DirFull}
    \cup {DirOf([n \in TemplateNameSet \ {x} |-> "text"]) : x \in TemplateNameSet}
    \cup {DirOf([GetBuiltinTemplates EXCEPT ![x] = k]) :
             x \in TemplateNameSet, k \in {"empty", "fail", "bad"}}

\* templates.LoadFromDirectory(dir)
LoadFromDirectory(d) ==
    IF ~d.exists
    THEN [content |-> EmptyMap,
          err |-> Errorf("failed to load templates from directory", <<>>, <<>>)]
    ELSE IF DOMAIN d.files = {}
    THEN [content |-> EmptyMap,
          err |-> Errorf("no template files found in directory", <<>>, <<>>)]
    ELSE [content |-> d.files, err |-> Nil]

\* Go strings are tuples of one-character strings, so that the tests the code
\* makes on a template source are made on its text
HasPrefix(s, prefix) == Len(s) >= Len(prefix) /\ SubSeq(s, 1, Len(prefix)) = prefix

HasSuffix(s, suffix) ==
    Len(s) >= Len(suffix) /\ SubSeq(s, Len(s) - Len(suffix) + 1, Len(s)) = suffix

Contains(s, substr) == \E i \in 1..(Len(s) + 1) : HasPrefix(SubSeq(s, i, Len(s)), substr)

\* strings.Index(s, c) for a one-character c: the first position, 0 for Go's -1
Index(s, c) ==
    IF \E i \in DOMAIN s : s[i] = c
    THEN CHOOSE i \in DOMAIN s : s[i] = c /\ \A j \in 1..(i - 1) : s[j] # c
    ELSE 0

\* strings.Split(s, c) for a one-character c
RECURSIVE Split(_, _)
Split(s, c) ==
    IF Index(s, c) = 0 THEN <<s>>
    ELSE <<SubSeq(s, 1, Index(s, c) - 1)>> \o Split(SubSeq(s, Index(s, c) + 1, Len(s)), c)

SchemeSep == <<":", "/", "/">>
SshPrefix == <<"g", "i", "t", "@">>
HttpsPrefix == <<"h", "t", "t", "p", "s", ":", "/", "/">>
HttpPrefix == <<"h", "t", "t", "p", ":", "/", "/">>
GitSuffix == <<".", "g", "i", "t">>
RepoPath == <<"o", "r", "g", "/", "r", "e", "p", "o">>

GitHub == <<"g", "i", "t", "h", "u", "b", ".", "c", "o", "m">>
GitLab == <<"g", "i", "t", "l", "a", "b", ".", "c", "o", "m">>
Bitbucket == <<"b", "i", "t", "b", "u", "c", "k", "e", "t", ".", "o", "r", "g">>

\* allowedHosts of validateAndNormalizeGitURL
allowedHosts == {GitHub, GitLab, Bitbucket}

\* hosts off the list: another host, one that an allowed name is a prefix of,
\* and one behind an allowed name used as the user part
EvilHost == <<"e", "v", "i", "l", ".", "i", "o">>
ForeignHosts == {EvilHost, GitHub \o <<".">> \o EvilHost, GitHub \o <<"@">> \o EvilHost}
Hosts == allowedHosts \cup ForeignHosts

\* the documented forms of a repository identifier
HttpsURL(h) == HttpsPrefix \o h \o <<"/">> \o RepoPath \o GitSuffix
HttpsBareURL(h) == HttpsPrefix \o h \o <<"/">> \o RepoPath
SshURL(h) == SshPrefix \o h \o <<":">> \o RepoPath \o GitSuffix
ShortURL(h) == h \o <<"/">> \o RepoPath
\* and forms the code has a branch for: another scheme, no path, no colon
HttpURL(h) == HttpPrefix \o h \o <<"/">> \o RepoPath \o GitSuffix
HttpsHostOnly(h) == HttpsPrefix \o h
SshNoColon(h) == SshPrefix \o h

UrlForms(h) ==
    {HttpsURL(h), HttpsBareURL(h), SshURL(h), ShortURL(h),
     HttpURL(h), HttpsHostOnly(h), SshNoColon(h)}

Identifiers == UNION {UrlForms(h) : h \in Hosts}

\* the short form becomes an HTTPS URL that ends in .git
normalizeShortForm(repoURL) ==
    IF ~Contains(repoURL, SchemeSep) /\ ~HasPrefix(repoURL, SshPrefix)
    THEN IF HasSuffix(HttpsPrefix \o repoURL, GitSuffix)
         THEN HttpsPrefix \o repoURL
         ELSE HttpsPrefix \o repoURL \o GitSuffix
    ELSE repoURL

UrlError(msg, vals) == [url |-> <<>>, err |-> Errorf(msg, <<>>, vals)]

\* the SSH branch: git@host:path, the host is the text before the first colon
validateSshURL(repoURL) ==
    IF Len(Split(repoURL, "@")) # 2
    THEN UrlError("invalid SSH Git URL format", <<>>)
    ELSE LET hostAndPath == Split(repoURL, "@")[2]
             colonIndex == Index(hostAndPath, ":")
             host == SubSeq(hostAndPath, 1, colonIndex - 1)
         IN  IF colonIndex = 0 THEN UrlError("invalid SSH Git URL format", <<>>)
             ELSE IF host \notin allowedHosts THEN UrlError("Git host is not allowed", <<host>>)
             ELSE [url |-> repoURL, err |-> Nil]

\* the HTTPS branch that lets every host through
validateHttpsURL_AnyHost(repoURL) ==
    IF ~HasPrefix(repoURL, HttpsPrefix)
    THEN UrlError("only HTTPS and SSH Git URLs are supported", <<>>)
    ELSE IF Len(Split(repoURL, "/")) < 4 THEN UrlError("invalid Git URL format", <<>>)
    ELSE [url |-> repoURL, err |-> Nil]

\* the HTTPS branch: the host is the text between the second and third slash
validateHttpsURL(repoURL) ==
    IF ~HasPrefix(repoURL, HttpsPrefix)
    THEN UrlError("only HTTPS and SSH Git URLs are supported", <<>>)
    ELSE LET urlParts == Split(repoURL, "/") IN
         IF Len(urlParts) < 4 THEN UrlError("invalid Git URL format", <<>>)
         ELSE IF urlParts[3] \notin allowedHosts
         THEN UrlError("Git host is not allowed", <<urlParts[3]>>)
         ELSE [url |-> repoURL, err |-> Nil]

\* validateAndNormalizeGitURL(repoURL): the normalized URL, or an error
validateAndNormalizeGitURL(repoURL) ==
    IF HasPrefix(normalizeShortForm(repoURL), SshPrefix)
    THEN validateSshURL(normalizeShortForm(repoURL))
    ELSE validateHttpsURL(normalizeShortForm(repoURL))

\* cloneGitRepository: isCommandAvailable("git") runs executeCommand, which
\* in this version returns an error for every command, so no clone is made
executeCommand == Errorf("command execution not implemented in this version", <<>>, <<>>)
isCommandAvailable == executeCommand = Nil
cloneGitRepository(repoURL, targetDir) ==
    IF ~isCommandAvailable THEN Errorf("git command is not available", <<>>, <<>>)
    ELSE IF executeCommand # Nil THEN Wrapf("git clone failed", <<>>, <<>>, executeCommand)
    ELSE Nil

\* templates.LoadFromGit(repoURL) when the scratch directory can be made: the
\* URL is validated, then the clone fails and no template is returned
LoadFromGit(src) ==
    IF validateAndNormalizeGitURL(src).err # Nil
    THEN [content |-> EmptyMap,
          err |-> Wrapf("invalid Git repository URL", <<>>, <<>>,
                        validateAndNormalizeGitURL(src).err)]
    ELSE [content |-> EmptyMap,
          err |-> Wrapf("failed to clone repository", <<src>>, <<>>,
                        cloneGitRepository(validateAndNormalizeGitURL(src).url, 1))]

Builtin == <<"b", "u", "i", "l", "t", "i", "n">>
EmptySource == <<>>
DirSource == <<".", "/", "t", "e", "m", "p", "l", "a", "t", "e", "s">>
MissingDir == <<".", "/", "m", "i", "s", "s", "i", "n", "g">>
GitSource == SshURL(GitHub)
Sources == {Builtin, DirSource, GitSource}
LocalSources == {Builtin, DirSource}
\* every template source a caller may name
TemplateSources == {Builtin, EmptySource, DirSource, MissingDir} \cup Identifiers

\* strings.Contains(src, "://") || strings.Contains(src, "@")
LooksLikeGit(src) == Contains(src, SchemeSep) \/ Contains(src, <<"@">>)

\* the directory found at a path: the template directory, or nothing
DirAt(path, d) == IF path = DirSource THEN d ELSE DirMissing

\* loadTemplates on what a custom source returned: an error is wrapped
WrapCustom(src, r) ==
    IF r.err # Nil
    THEN [content |-> EmptyMap,
          err |-> Wrapf("failed to load custom templates", <<src>>, <<>>, r.err)]
    ELSE r

\* the first half of loadTemplates: the template content of the source
Resolve(src, d) ==
    IF src \in {Builtin, EmptySource} THEN [content |-> GetBuiltinTemplates, err |-> Nil]
    ELSE WrapCustom(src, IF LooksLikeGit(src) THEN LoadFromGit(src)
                         ELSE LoadFromDirectory(DirAt(src, d)))

\* the parse loop of loadTemplates: `range` visits the bodies in a random
\* order and returns at the first that fails to parse; seed picks which
BadBodies(content) == {n \in DOMAIN content : content[n] = "bad"}

RECURSIVE PickName(_, _)
PickName(S, n) ==
    LET m == CHOOSE x \in S : \A y \in S :
                 \E i, j \in DOMAIN SectionTemplates :
                     SectionTemplates[i] = x /\ SectionTemplates[j] = y /\ i <= j
    IN  IF n = 0 THEN m ELSE PickName(S \ {m}, n - 1)

\* the position of a template name in the fixed order of the sections
Pos(name) == CHOOSE i \in DOMAIN SectionTemplates : SectionTemplates[i] = name

\* g.templates when the loop stops at the body named bad: the bodies parsed
\* before it, in the visiting order that follows the order of the sections
ParsedBefore(content, bad) ==
    [n \in {m \in DOMAIN content : content[m] # "bad" /\ Pos(m) < Pos(bad)} |-> content[n]]

Compile(content, seed) ==
    IF BadBodies(content) # {}
    THEN LET bad == PickName(BadBodies(content), seed % Cardinality(BadBodies(content)))
         IN  [tpl |-> Ptr(ParsedBefore(content, bad)),
              err |-> Errorf("failed to parse template", <<bad>>, <<>>)]
    ELSE [tpl |-> Ptr(content), err |-> Nil]

\* loadTemplates after a cache miss: resolve, then compile
LoadUncached(src, d, seed) ==
    LET r == Resolve(src, d) IN
    IF r.err # Nil THEN [tpl |-> Nil, err |-> r.err] ELSE Compile(r.content, seed)

\* NewWithOptions that hands out g whatever loadTemplates parsed
NewWithOptions_Partial(src, tpl, err) ==
    IF err # Nil /\ IsNil(tpl)
    THEN [gen |-> Nil, err |-> Wrapf("failed to load templates from", <<src>>, <<>>, err)]
    ELSE [gen |-> Ptr([templateSource |-> src, templates |-> Deref(tpl)]),
          err |-> IF err # Nil
                  THEN Wrapf("failed to load templates from", <<src>>, <<>>, err) ELSE Nil]

\* what NewWithOptions returns once loadTemplates has returned err
NewWithOptions(src, tpl, err) ==
    IF err # Nil
    THEN [gen |-> Nil, err |-> Wrapf("failed to load templates from", <<src>>, <<>>, err)]
    ELSE [gen |-> Ptr([templateSource |-> src, templates |-> Deref(tpl)]), err |-> Nil]

\* `time.Since(entry.loadTime) > cacheTimeout`
cacheTimeout == 5

Expired(entry, t) == t - entry.loadTime > cacheTimeout

\* getCachedTemplate that misses on an expired entry and leaves it at that
getCachedTemplate_NoSpawn(cache, src, t) ==
    IF IsNil(cache[src]) THEN [tpl |-> Nil, spawn |-> FALSE]
    ELSE IF Expired(Deref(cache[src]), t) THEN [tpl |-> Nil, spawn |-> FALSE]
    ELSE [tpl |-> Ptr(Deref(cache[src]).templates), spawn |-> FALSE]

\* getCachedTemplate without the test of the entry's age
getCachedTemplate_NoExpiry(cache, src, t) ==
    IF IsNil(cache[src]) THEN [tpl |-> Nil, spawn |-> FALSE]
    ELSE [tpl |-> Ptr(Deref(cache[src]).templates), spawn |-> FALSE]

\* getCachedTemplate: the unit returned (Nil for none) and whether it starts
\* the cleaning goroutine
getCachedTemplate(cache, src, t) ==
    IF IsNil(cache[src]) THEN [tpl |-> Nil, spawn |-> FALSE]
    ELSE IF Expired(Deref(cache[src]), t) THEN [tpl |-> Nil, spawn |-> TRUE]
    ELSE [tpl |-> Ptr(Deref(cache[src]).templates), spawn |-> FALSE]

\* cacheTemplate that keeps an entry another construction has written
cacheTemplate_KeepFirst(cache, src, tpl, t) ==
    IF IsNil(cache[src])
    THEN [cache EXCEPT ![src] = Ptr([templates |-> tpl, loadTime |-> t, source |-> src])]
    ELSE cache

\* cacheTemplate: the cache with the entry of the source replaced
cacheTemplate(cache, src, tpl, t) ==
    [cache EXCEPT ![src] = Ptr([templates |-> tpl, loadTime |-> t, source |-> src])]

\* a sweep that empties the cache
cleanExpiredCache_All(cache, t) == [s \in DOMAIN cache |-> Nil]

\* cleanExpiredCache: the cache without its expired entries
cleanExpiredCache(cache, t) ==
    [s \in DOMAIN cache |->
        IF ~IsNil(cache[s]) /\ Expired(Deref(cache[s]), t) THEN Nil ELSE cache[s]]

-----------------------------------------------------------------------------
(* generator.go: Generate and the per-section generators *)

\* an engine whose text follows the iteration order of a map
ExecuteTemplate_MapOrder(tpl, name, data, seed) ==
    IF name \notin DOMAIN tpl
    THEN [out |-> <<>>, err |-> Errorf("no template associated", <<name>>, <<>>)]
    ELSE IF tpl[name] = "fail"
    THEN [out |-> <<>>, err |-> Errorf("error executing template", <<name>>, <<>>)]
    ELSE IF tpl[name] = "empty"
    THEN [out |-> <<>>, err |-> Nil]
    ELSE [out |-> <<[template |-> name, data |-> data, order |-> seed]>>, err |-> Nil]

\* g.templates.ExecuteTemplate(&output, name, data).  The seed is that of the
\* call's map iterations: text/template visits map keys in sorted order, so
\* the rendered text does not depend on it.
ExecuteTemplate(tpl, name, data, seed) ==
    IF name \notin DOMAIN tpl
    THEN [out |-> <<>>, err |-> Errorf("no template associated", <<name>>, <<>>)]
    ELSE IF tpl[name] = "fail"
    THEN [out |-> <<>>, err |-> Errorf("error executing template", <<name>>, <<>>)]
    ELSE IF tpl[name] = "empty"
    THEN [out |-> <<>>, err |-> Nil]
    ELSE [out |-> <<[template |-> name, data |-> data]>>, err |-> Nil]

\* the network dependencies generateCompute collects from a list of
\* instance templates or instances, interface by interface
IfaceDeps(iface) ==
    (IF iface.Network # "" THEN <<<<"google_compute_network", iface.Network>>>> ELSE <<>>)
    \o (IF iface.Subnetwork # ""
        THEN <<<<"google_compute_subnetwork", iface.Subnetwork>>>> ELSE <<>>)

RECURSIVE IfacesDeps(_)
IfacesDeps(ifaces) ==
    IF ifaces = <<>> THEN <<>> ELSE IfaceDeps(Head(ifaces)) \o IfacesDeps(Tail(ifaces))

RECURSIVE OwnersDeps(_)
OwnersDeps(owners) ==
    IF owners = <<>> THEN <<>>
    ELSE IfacesDeps(Head(owners).NetworkInterfaces) \o OwnersDeps(Tail(owners))

RECURSIVE Once(_)
Once(s) ==
    IF s = <<>> THEN <<>>
    ELSE LET r == Once(SubSeq(s, 1, Len(s) - 1))
         IN IF s[Len(s)] \in Range(r) THEN r ELSE Append(r, s[Len(s)])

ComputeNetworkDeps_Once(compute) ==
    Once(OwnersDeps(compute.InstanceTemplates) \o OwnersDeps(compute.Instances))

ComputeNetworkDeps(compute) ==
    OwnersDeps(compute.InstanceTemplates) \o OwnersDeps(compute.Instances)

\* every template executed with the section as the config holds it
SectionData_RawOnly(c, name) ==
    CASE name = "project.tf" -> Deref(c.Project)
      [] name = "networking.tf" -> Deref(c.Networking)
      [] name = "compute.tf" -> Deref(c.Compute)
      [] name = "load_balancers.tf" -> c.LoadBalancers
      [] name = "iam.tf" -> Deref(c.Iam)
      [] name = "storage.tf" -> Deref(c.Storage)
      [] name = "cloud_run.tf" -> Deref(c.CloudRun)
      [] name = "databases.tf" -> Deref(c.Databases)
      [] OTHER -> c

\* the data each section's template is executed with
SectionData(c, name) ==
    CASE name = "project.tf" -> Deref(c.Project)
      [] name = "networking.tf" ->
            [Data |-> Deref(c.Networking),
             Dependencies |-> [RequiresProjectAPIs |-> TRUE,
                               ProjectAPIs |-> <<"compute.googleapis.com">>,
                               RequiresNetworking |-> FALSE,
                               NetworkDependencies |-> <<>>]]
      [] name = "compute.tf" ->
            [Data |-> Deref(c.Compute),
             Dependencies |-> [RequiresProjectAPIs |-> TRUE,
                               ProjectAPIs |-> <<"compute.googleapis.com">>,
                               RequiresNetworking |->
                                   Len(ComputeNetworkDeps(Deref(c.Compute))) > 0,
                               NetworkDependencies |->
                                   ComputeNetworkDeps(Deref(c.Compute))]]
      [] name = "load_balancers.tf" -> c.LoadBalancers
      [] name = "iam.tf" ->
            [Data |-> Deref(c.Iam),
             Dependencies |-> [RequiresProjectAPIs |-> FALSE, ProjectAPIs |-> <<>>,
                               RequiresNetworking |-> FALSE,
                               NetworkDependencies |-> <<>>]]
      [] name = "storage.tf" -> Deref(c.Storage)
      [] name = "cloud_run.tf" ->
            [Data |-> Deref(c.CloudRun),
             Dependencies |-> [RequiresProjectAPIs |-> TRUE,
                               ProjectAPIs |-> <<"run.googleapis.com",
                                                 "vpcaccess.googleapis.com">>,
                               RequiresNetworking |-> FALSE,
                               NetworkDependencies |-> <<>>]]
      [] name = "databases.tf" ->
            [Data |-> Deref(c.Databases),
             Dependencies |-> [RequiresProjectAPIs |-> TRUE,
                               ProjectAPIs |-> <<"sqladmin.googleapis.com",
                                                 "spanner.googleapis.com">>,
                               RequiresNetworking |-> FALSE,
                               NetworkDependencies |-> <<>>]]
      [] OTHER -> c

\* the `if cfg.X != nil` guard of each block of Generate
SectionPresent(c, name) ==
    CASE name = "project.tf" -> ~IsNil(c.Project)
      [] name = "networking.tf" -> ~IsNil(c.Networking)
      [] name = "compute.tf" -> ~IsNil(c.Compute)
      [] name = "load_balancers.tf" -> Len(c.LoadBalancers) > 0
      [] name = "iam.tf" -> ~IsNil(c.Iam)
      [] name = "storage.tf" -> ~IsNil(c.Storage)
      [] name = "cloud_run.tf" -> ~IsNil(c.CloudRun)
      [] name = "databases.tf" -> ~IsNil(c.Databases)
      [] OTHER -> TRUE

\* every block storing its text without the `if content != ""` test
StoredWhenEmpty_All == Range(SectionTemplates)

\* the outputs block with the `if content != ""` test of its neighbours
StoredWhenEmpty_NoOutputs == {"project.tf", "load_balancers.tf", "variables.tf"}

\* the blocks that store the text without the `if content != ""` test
StoredWhenEmpty == {"project.tf", "load_balancers.tf", "variables.tf", "outputs.tf"}

\* the section as the error messages of Generate and generateX call it
SectionLabel(name) ==
    CASE name = "project.tf" -> "project"
      [] name = "networking.tf" -> "networking"
      [] name = "compute.tf" -> "compute"
      [] name = "load_balancers.tf" -> "load balancer"
      [] name = "iam.tf" -> "IAM"
      [] name = "storage.tf" -> "storage"
      [] name = "cloud_run.tf" -> "Cloud Run"
      [] name = "databases.tf" -> "database"
      [] name = "variables.tf" -> "variables"
      [] name = "outputs.tf" -> "outputs"

\* generateProject .. generateDatabases: execute the section's template and
\* wrap its error
generateSection(tpl, c, name, seed) ==
    LET r == ExecuteTemplate(tpl, name, SectionData(c, name), seed) IN
    IF r.err # Nil
    THEN [out |-> <<>>,
          err |-> Wrapf("template execution failed for configuration",
                        <<SectionLabel(name)>>, <<>>, r.err)]
    ELSE r

\* Generate that returns the map built so far beside the error
RECURSIVE GenerateFrom_Partial(_, _, _, _, _, _)
GenerateFrom_Partial(tpl, c, k, files, rendered, seed) ==
    IF k > Len(SectionTemplates)
    THEN [files |-> Ptr(files), err |-> Nil, rendered |-> rendered]
    ELSE LET name == SectionTemplates[k] IN
         IF ~SectionPresent(c, name)
         THEN GenerateFrom_Partial(tpl, c, k + 1, files, rendered, seed)
         ELSE LET r == generateSection(tpl, c, name, seed) IN
              IF r.err # Nil
              THEN [files |-> Ptr(files),
                    err |-> Wrapf("failed to generate configuration",
                                  <<SectionLabel(name)>>, <<>>, r.err),
                    rendered |-> Append(rendered, name)]
              ELSE GenerateFrom_Partial(tpl, c, k + 1,
                                        IF name \in StoredWhenEmpty \/ r.out # <<>>
                                        THEN (name :> r.out) @@ files ELSE files,
                                        Append(rendered, name), seed)

\* Generate from its k-th block on: files is the map built so far, rendered
\* the templates executed so far
RECURSIVE GenerateFrom(_, _, _, _, _, _)
GenerateFrom(tpl, c, k, files, rendered, seed) ==
    IF k > Len(SectionTemplates)
    THEN [files |-> Ptr(files), err |-> Nil, rendered |-> rendered]
    ELSE LET name == SectionTemplates[k] IN
         IF ~SectionPresent(c, name)
         THEN GenerateFrom(tpl, c, k + 1, files, rendered, seed)
         ELSE LET r == generateSection(tpl, c, name, seed) IN
              IF r.err # Nil
              THEN [files |-> Nil,
                    err |-> Wrapf("failed to generate configuration",
                                  <<SectionLabel(name)>>, <<>>, r.err),
                    rendered |-> Append(rendered, name)]
              ELSE GenerateFrom(tpl, c, k + 1,
                                IF name \in StoredWhenEmpty \/ r.out # <<>>
                                THEN (name :> r.out) @@ files ELSE files,
                                Append(rendered, name), seed)

Generate(tpl, c, seed) == GenerateFrom(tpl, c, 1, EmptyMap, <<>>, seed)

-----------------------------------------------------------------------------
(* The state machine *)

Procs == 1..NumProcs
Cleaner == 0          \* the holder of the write lock while cleanExpiredCache runs

\* what the construction's cache read found, kept for the record: whether
\* it read at all, the entry it found, the entry's age, whether the
\* construction then resolved and compiled, and whether it was started after
\* a construction from the same source had failed
NoHist == [read |-> FALSE, entry |-> Nil, age |-> 0, resolved |-> FALSE,
           follows |-> FALSE]

\* the configs Generate is run on: of the six validated sections none, one,
\* all but one or all are present; and the two sections Generate alone knows
NumPresent(c) ==
    Cardinality({n \in {"project.tf", "networking.tf", "compute.tf", "load_balancers.tf",
                        "iam.tf", "storage.tf"} : SectionPresent(c, n)})

GenConfigs ==
    {c \in [Structural : {"ok"},
            Project : {Nil, Ptr(GoodProject)},
            Networking : {Nil, Ptr(NetworkingGood)},
            Compute : {Nil, Ptr(ComputeGood)},
            LoadBalancers : {<<>>, <<LbGood>>},
            Iam : {Nil, Ptr(IamGood)},
            Storage : {Nil, Ptr(StorageGood)},
            CloudRun : {Nil},
            Databases : {Nil}] : NumPresent(c) \in {0, 1, 5, 6}}
    \cup {[BaseConfig EXCEPT !.CloudRun = cr, !.Databases = db] :
             cr \in {Nil, Ptr([Services |-> <<"api">>])},
             db \in {Nil, Ptr([CloudSql |-> <<"db">>])}}
    \cup {[BaseConfig EXCEPT !.Compute = Ptr(compute)] : compute \in ComputeRefs}
    \cup {[BaseConfig EXCEPT !.Networking = Ptr(NetworkingGood),
                             !.Compute = Ptr(compute)] : compute \in ComputeRefs}

\* the directory states of the cache specification
SpecDirs ==
    {DirFull,
     DirOf([n \in TemplateNameSet \ {"outputs.tf"} |-> "text"]),
     DirOf([GetBuiltinTemplates EXCEPT !["compute.tf"] = "bad"])}

\* no loader call in progress
NoCall == [fn |-> "none", dir |-> EmptySource, repo |-> EmptySource, src |-> EmptySource]

InitIdle ==
    /\ vres = Nil
    /\ now = 0
    /\ templateCache = [s \in Sources |-> Nil]
    /\ readers = {}
    /\ writer = Nil
    /\ pc = [p \in Procs |-> "idle"]
    /\ gsrc = [p \in Procs |-> Builtin]
    /\ gcache = [p \in Procs |-> TRUE]
    /\ gtpl = [p \in Procs |-> Nil]
    /\ gret = [p \in Procs |-> Nil]
    /\ gerr = [p \in Procs |-> Nil]
    /\ ghist = [p \in Procs |-> NoHist]
    /\ cleaners = 0
    /\ lastGen = Nil
    /\ prevGen = Nil
    /\ lastClean = Nil
    /\ lcall = NoCall
    /\ lpc = "idle"
    /\ lnorm = <<>>
    /\ ltmp = 0
    /\ scratch = {}
    /\ llog = <<>>
    /\ lres = Nil
    /\ lout = Nil

genVars == <<lastGen, prevGen, lastClean>>
loadVars == <<lcall, lpc, lnorm, ltmp, scratch, llog, lres, lout>>
valVars == <<cfg, vres>>
lockVars == <<readers, writer>>
procVars == <<pc, gsrc, gcache, gtpl, gret, gerr, ghist>>

\* ValidateConfig(cfg)
Validate ==
    /\ IsNil(vres)
    /\ \E r \in RandSeeds : vres' = Ptr(ValidateConfig(cfg, r))
    /\ UNCHANGED <<cfg, now, disk, templateCache, cleaners>>
    /\ UNCHANGED <<lockVars, procVars, genVars, loadVars>>

\* another caller holds the error of a construction from this source
FollowsFailure(p, src) ==
    \E q \in Procs \ {p} : pc[q] = "failed" /\ gsrc[q] = src

\* NewWithOptions(src, opts) with the cache enabled, up to and including
\* cacheMutex.RLock() in getCachedTemplate
StartCached(p, src) ==
    /\ pc[p] = "idle"
    /\ IsNil(writer)
    /\ readers' = readers \cup {p}
    /\ pc' = [pc EXCEPT ![p] = "reading"]
    /\ gsrc' = [gsrc EXCEPT ![p] = src]
    /\ gcache' = [gcache EXCEPT ![p] = TRUE]
    /\ ghist' = [ghist EXCEPT ![p].follows = FollowsFailure(p, src)]
    /\ UNCHANGED <<gtpl, gret, gerr, writer>>
    /\ UNCHANGED <<loadVars, valVars, now, disk, templateCache, cleaners, genVars>>

\* a construction with DisableCache that consults the cache all the same
StartUncached_UseCache(p, src) ==
    /\ pc[p] = "idle"
    /\ IsNil(writer)
    /\ readers' = readers \cup {p}
    /\ pc' = [pc EXCEPT ![p] = "reading"]
    /\ gsrc' = [gsrc EXCEPT ![p] = src]
    /\ gcache' = [gcache EXCEPT ![p] = FALSE]
    /\ ghist' = [ghist EXCEPT ![p].follows = FollowsFailure(p, src)]
    /\ UNCHANGED <<gtpl, gret, gerr, writer>>
    /\ UNCHANGED <<loadVars, valVars, now, disk, templateCache, cleaners, genVars>>

\* NewWithOptions(src, &NewOptions{DisableCache: true}): loadTemplates(false)
\* goes straight to the source
StartUncached(p, src) ==
    /\ pc[p] = "idle"
    /\ pc' = [pc EXCEPT ![p] = "load"]
    /\ gsrc' = [gsrc EXCEPT ![p] = src]
    /\ gcache' = [gcache EXCEPT ![p] = FALSE]
    /\ ghist' = [ghist EXCEPT ![p].follows = FollowsFailure(p, src)]
    /\ UNCHANGED <<gtpl, gret, gerr>>
    /\ UNCHANGED <<loadVars, valVars, now, disk, templateCache, cleaners, lockVars, genVars>>

\* getCachedTemplate: the lookup, the deferred RUnlock, and on a hit the
\* return of loadTemplates and NewWithOptions
GetCached(p) ==
    /\ pc[p] = "reading"
    /\ LET r == getCachedTemplate(templateCache, gsrc[p], now) IN
       /\ cleaners' = IF r.spawn /\ cleaners < MaxCleaners THEN cleaners + 1 ELSE cleaners
       /\ gtpl' = [gtpl EXCEPT ![p] = r.tpl]
       /\ IF IsNil(r.tpl)
          THEN /\ pc' = [pc EXCEPT ![p] = "load"]
               /\ UNCHANGED <<gret, gerr>>
          ELSE /\ pc' = [pc EXCEPT ![p] = "ready"]
               /\ gret' = [gret EXCEPT ![p] = NewWithOptions(gsrc[p], r.tpl, Nil).gen]
               /\ gerr' = [gerr EXCEPT ![p] = NewWithOptions(gsrc[p], r.tpl, Nil).err]
    /\ ghist' = [ghist EXCEPT ![p] =
                    [read |-> TRUE, entry |-> templateCache[gsrc[p]],
                     age |-> IF IsNil(templateCache[gsrc[p]]) THEN 0
                             ELSE now - Deref(templateCache[gsrc[p]]).loadTime,
                     resolved |-> FALSE, follows |-> ghist[p].follows]]
    /\ readers' = readers \ {p}
    /\ UNCHANGED <<gsrc, gcache, writer>>
    /\ UNCHANGED <<loadVars, valVars, now, disk, templateCache, genVars>>

\* loadTemplates that stores what it has parsed before it returns its error
Load_CacheAnyway(p) ==
    /\ pc[p] = "load"
    /\ \E seed \in RandSeeds :
          LET r == LoadUncached(gsrc[p], disk, seed) IN
          /\ gtpl' = [gtpl EXCEPT ![p] = r.tpl]
          /\ templateCache' =
                IF r.err # Nil /\ gcache[p]
                THEN cacheTemplate(templateCache, gsrc[p],
                                   IF IsNil(r.tpl) THEN EmptyMap ELSE Deref(r.tpl), now)
                ELSE templateCache
          /\ IF r.err = Nil /\ gcache[p]
             THEN /\ pc' = [pc EXCEPT ![p] = "loaded"]
                  /\ UNCHANGED <<gret, gerr>>
             ELSE /\ pc' = [pc EXCEPT ![p] = IF r.err = Nil THEN "ready" ELSE "failed"]
                  /\ gret' = [gret EXCEPT ![p] = NewWithOptions(gsrc[p], r.tpl, r.err).gen]
                  /\ gerr' = [gerr EXCEPT ![p] = NewWithOptions(gsrc[p], r.tpl, r.err).err]
    /\ ghist' = [ghist EXCEPT ![p].resolved = TRUE]
    /\ UNCHANGED <<gsrc, gcache>>
    /\ UNCHANGED <<loadVars, valVars, now, disk, cleaners, lockVars, genVars>>

\* loadTemplates after a miss or with the cache disabled: the source is
\* resolved and every body compiled; NewWithOptions returns unless the unit
\* is to be cached
Load(p) ==
    /\ pc[p] = "load"
    /\ \E seed \in RandSeeds :
          LET r == LoadUncached(gsrc[p], disk, seed) IN
          /\ gtpl' = [gtpl EXCEPT ![p] = r.tpl]
          /\ IF r.err = Nil /\ gcache[p]
             THEN /\ pc' = [pc EXCEPT ![p] = "loaded"]
                  /\ UNCHANGED <<gret, gerr>>
             ELSE /\ pc' = [pc EXCEPT ![p] = IF r.err = Nil THEN "ready" ELSE "failed"]
                  /\ gret' = [gret EXCEPT ![p] = NewWithOptions(gsrc[p], r.tpl, r.err).gen]
                  /\ gerr' = [gerr EXCEPT ![p] = NewWithOptions(gsrc[p], r.tpl, r.err).err]
    /\ ghist' = [ghist EXCEPT ![p].resolved = TRUE]
    /\ UNCHANGED <<gsrc, gcache>>
    /\ UNCHANGED <<loadVars, valVars, now, disk, templateCache, cleaners, lockVars, genVars>>

\* cacheTemplate entered without waiting for cacheMutex
WLock_NoWait(p) ==
    /\ pc[p] = "loaded"
    /\ writer' = Ptr(p)
    /\ pc' = [pc EXCEPT ![p] = "writing"]
    /\ UNCHANGED <<gsrc, gcache, gtpl, gret, gerr, ghist, readers>>
    /\ UNCHANGED <<loadVars, valVars, now, disk, templateCache, cleaners, genVars>>

\* cacheTemplate: cacheMutex.Lock()
WLock(p) ==
    /\ pc[p] = "loaded"
    /\ readers = {}
    /\ IsNil(writer)
    /\ writer' = Ptr(p)
    /\ pc' = [pc EXCEPT ![p] = "writing"]
    /\ UNCHANGED <<gsrc, gcache, gtpl, gret, gerr, ghist, readers>>
    /\ UNCHANGED <<loadVars, valVars, now, disk, templateCache, cleaners, genVars>>

\* cacheTemplate: the store, the deferred Unlock, and the return of
\* loadTemplates and NewWithOptions
CacheTemplate(p) ==
    /\ pc[p] = "writing"
    /\ templateCache' = cacheTemplate(templateCache, gsrc[p], Deref(gtpl[p]), now)
    /\ writer' = Nil
    /\ pc' = [pc EXCEPT ![p] = "ready"]
    /\ gret' = [gret EXCEPT ![p] = NewWithOptions(gsrc[p], gtpl[p], Nil).gen]
    /\ gerr' = [gerr EXCEPT ![p] = NewWithOptions(gsrc[p], gtpl[p], Nil).err]
    /\ UNCHANGED <<gsrc, gcache, gtpl, ghist, readers>>
    /\ UNCHANGED <<loadVars, valVars, now, disk, cleaners, genVars>>

\* the caller drops the Generator (or the error) it was returned
Release(p) ==
    /\ pc[p] \in {"ready", "failed"}
    /\ pc' = [pc EXCEPT ![p] = "idle"]
    /\ gsrc' = [gsrc EXCEPT ![p] = Builtin]
    /\ gcache' = [gcache EXCEPT ![p] = TRUE]
    /\ gtpl' = [gtpl EXCEPT ![p] = Nil]
    /\ gret' = [gret EXCEPT ![p] = Nil]
    /\ gerr' = [gerr EXCEPT ![p] = Nil]
    /\ ghist' = [ghist EXCEPT ![p] = NoHist]
    /\ UNCHANGED <<loadVars, valVars, now, disk, templateCache, cleaners, lockVars, genVars>>

\* cleanExpiredCache: cacheMutex.Lock()
CleanLock ==
    /\ cleaners > 0
    /\ readers = {}
    /\ IsNil(writer)
    /\ writer' = Ptr(Cleaner)
    /\ UNCHANGED <<loadVars, valVars, now, disk, templateCache, cleaners, readers, procVars, genVars>>

\* cleanExpiredCache: the sweep and the deferred Unlock
CleanRun ==
    /\ writer = Ptr(Cleaner)
    /\ templateCache' = cleanExpiredCache(templateCache, now)
    /\ writer' = Nil
    /\ cleaners' = cleaners - 1
    /\ lastClean' = Ptr([at |-> now, before |-> templateCache])
    /\ UNCHANGED <<loadVars, valVars, now, disk, readers, procVars, lastGen, prevGen>>

\* time passes: the clock is next looked at some minutes on
TickSteps == {3, 5}

Tick ==
    /\ \E d \in TickSteps : now + d <= MaxTime /\ now' = now + d
    /\ UNCHANGED <<loadVars, valVars, disk, templateCache, cleaners, lockVars, procVars, genVars>>

\* the template directory is edited on disk
EditDir(d) ==
    /\ d # disk
    /\ disk' = d
    /\ UNCHANGED <<loadVars, valVars, now, templateCache, cleaners, lockVars, procVars, genVars>>

\* g.Generate(cfg) on a Generator that NewWithOptions returned
GenerateCall(p) ==
    /\ pc[p] = "ready"
    /\ \E seed \in RandSeeds :
          lastGen' = Ptr([tpl |-> Deref(gret[p]).templates]
                         @@ Generate(Deref(gret[p]).templates, cfg, seed))
    /\ prevGen' \in {prevGen, lastGen}
    /\ lastClean' = lastClean
    /\ UNCHANGED <<loadVars, valVars, now, disk, templateCache, cleaners, lockVars, procVars>>

cacheVars == <<now, disk, templateCache, cleaners, lockVars, procVars, genVars>>

\* the names os.MkdirTemp can give a scratch directory
MaxScratch == 2
ScratchNames == 1..MaxScratch

\* templates.LoadFromGit(u), called by a user of the package
CallLoadFromGit(u) ==
    /\ lpc = "idle"
    /\ lcall' = [NoCall EXCEPT !.fn = "LoadFromGit", !.src = u]
    /\ lpc' = "validate"
    /\ llog' = <<"LoadFromGit">>
    /\ UNCHANGED <<lnorm, ltmp, scratch, lres, lout>>
    /\ UNCHANGED <<valVars, cacheVars>>

\* generator.New(src), the first construction from this source
CallNew(src) ==
    /\ lpc = "idle"
    /\ lcall' = [NoCall EXCEPT !.fn = "New", !.src = src]
    /\ lpc' = "route"
    /\ UNCHANGED <<lnorm, ltmp, scratch, llog, lres, lout>>
    /\ UNCHANGED <<valVars, cacheVars>>

\* runGenerate: --template-dir, then --template-repo, then the built-in set
selectTemplateSource(dir, repo) ==
    IF dir # EmptySource THEN dir
    ELSE IF repo # EmptySource THEN repo
    ELSE Builtin

\* runGenerate(opts) up to the call of generator.New: the configuration is
\* validated and the template source chosen
RunGenerate(dir, repo) ==
    /\ lpc = "idle"
    /\ lcall' = [fn |-> "runGenerate", dir |-> dir, repo |-> repo,
                 src |-> selectTemplateSource(dir, repo)]
    /\ \E r \in RandSeeds :
          IF ValidateConfig(cfg, r).err # Nil
          THEN /\ lout' = Ptr([val |-> Nil,
                               err |-> Wrapf("configuration validation failed", <<>>, <<>>,
                                             ValidateConfig(cfg, r).err)])
               /\ lpc' = "done"
          ELSE /\ lout' = lout
               /\ lpc' = "route"
    /\ UNCHANGED <<lnorm, ltmp, scratch, llog, lres>>
    /\ UNCHANGED <<valVars, cacheVars>>

\* loadTemplates: the switch on g.templateSource
LoadTemplates ==
    /\ lpc = "route"
    /\ IF lcall.src \notin {Builtin, EmptySource} /\ LooksLikeGit(lcall.src)
       THEN /\ lpc' = "validate"
            /\ llog' = Append(llog, "LoadFromGit")
            /\ lres' = lres
       ELSE /\ lpc' = "resolved"
            /\ llog' = Append(llog, IF lcall.src \in {Builtin, EmptySource}
                                    THEN "GetBuiltinTemplates" ELSE "LoadFromDirectory")
            /\ lres' = Ptr(Resolve(lcall.src, disk))
    /\ UNCHANGED <<lcall, lnorm, ltmp, scratch, lout>>
    /\ UNCHANGED <<valVars, cacheVars>>

\* LoadFromGit: validateAndNormalizeGitURL(repoURL)
ValidateURL ==
    /\ lpc = "validate"
    /\ llog' = Append(llog, "validateAndNormalizeGitURL")
    /\ LET r == validateAndNormalizeGitURL(lcall.src) IN
       IF r.err # Nil
       THEN /\ lres' = Ptr([content |-> EmptyMap,
                            err |-> Wrapf("invalid Git repository URL", <<>>, <<>>, r.err)])
            /\ lpc' = "return"
            /\ lnorm' = lnorm
       ELSE /\ lres' = lres
            /\ lpc' = "mkdir"
            /\ lnorm' = r.url
    /\ UNCHANGED <<lcall, ltmp, scratch, lout>>
    /\ UNCHANGED <<valVars, cacheVars>>

\* LoadFromGit: os.MkdirTemp makes a directory under a name not in use, or fails
MkdirTemp ==
    /\ lpc = "mkdir"
    /\ llog' = Append(llog, "MkdirTemp")
    /\ \/ \E t \in ScratchNames \ scratch :
             /\ ltmp' = t
             /\ scratch' = scratch \cup {t}
             /\ lpc' = "clone"
             /\ lres' = lres
       \/ /\ lres' = Ptr([content |-> EmptyMap,
                          err |-> Errorf("failed to create temporary directory", <<>>, <<>>)])
          /\ lpc' = "return"
          /\ UNCHANGED <<ltmp, scratch>>
    /\ UNCHANGED <<lcall, lnorm, lout>>
    /\ UNCHANGED <<valVars, cacheVars>>

\* LoadFromGit: cloneGitRepository(normalizedURL, tempDir) and, had it made a
\* clone, LoadFromDirectory(tempDir) on the files of the repository
CloneRepository ==
    /\ lpc = "clone"
    /\ llog' = Append(llog, "cloneGitRepository")
    /\ LET e == cloneGitRepository(lnorm, ltmp)
           r == LoadFromDirectory(DirFull)
       IN  lres' = Ptr(IF e # Nil
                       THEN [content |-> EmptyMap,
                             err |-> Wrapf("failed to clone repository", <<lcall.src>>, <<>>, e)]
                       ELSE IF r.err # Nil
                       THEN [content |-> EmptyMap,
                             err |-> Wrapf("failed to load templates from cloned repository",
                                           <<>>, <<>>, r.err)]
                       ELSE r)
    /\ lpc' = "cleanup"
    /\ UNCHANGED <<lcall, lnorm, ltmp, scratch, lout>>
    /\ UNCHANGED <<valVars, cacheVars>>

\* the deferred function that leaves the scratch directory in place
RemoveScratch_Keep ==
    /\ lpc = "cleanup"
    /\ llog' = Append(llog, "RemoveAll")
    /\ lpc' = "return"
    /\ UNCHANGED <<lcall, lnorm, ltmp, scratch, lres, lout>>
    /\ UNCHANGED <<valVars, cacheVars>>

\* LoadFromGit: the deferred os.RemoveAll(tempDir), run as the function returns
RemoveScratch ==
    /\ lpc = "cleanup"
    /\ scratch' = scratch \ {ltmp}
    /\ llog' = Append(llog, "RemoveAll")
    /\ lpc' = "return"
    /\ UNCHANGED <<lcall, lnorm, ltmp, lres, lout>>
    /\ UNCHANGED <<valVars, cacheVars>>

\* LoadFromGit returns, to the user of the package or to loadTemplates
ReturnFromGit ==
    /\ lpc = "return"
    /\ IF lcall.fn = "LoadFromGit"
       THEN /\ lout' = Ptr([val |-> Deref(lres).content, err |-> Deref(lres).err])
            /\ lpc' = "done"
            /\ lres' = lres
       ELSE /\ lres' = Ptr(WrapCustom(lcall.src, Deref(lres)))
            /\ lpc' = "resolved"
            /\ lout' = lout
    /\ UNCHANGED <<lcall, lnorm, ltmp, scratch, llog>>
    /\ UNCHANGED <<valVars, cacheVars>>

\* what runGenerate returns once generator.New has returned g
runGenerateResult(g, c, seed) ==
    IF g.err # Nil
    THEN [val |-> Nil, err |-> Wrapf("failed to create generator", <<>>, <<>>, g.err)]
    ELSE IF Generate(Deref(g.gen).templates, c, seed).err # Nil
    THEN [val |-> Nil,
          err |-> Wrapf("failed to generate Terraform code", <<>>, <<>>,
                        Generate(Deref(g.gen).templates, c, seed).err)]
    ELSE [val |-> Generate(Deref(g.gen).templates, c, seed).files, err |-> Nil]

\* the rest of loadTemplates and of NewWithOptions, and for the command the
\* call of Generate
FinishNew ==
    /\ lpc = "resolved"
    /\ \E seed \in RandSeeds :
          LET c == IF Deref(lres).err # Nil THEN [tpl |-> Nil, err |-> Deref(lres).err]
                   ELSE Compile(Deref(lres).content, seed)
              g == NewWithOptions(lcall.src, c.tpl, c.err)
          IN  lout' = Ptr(IF lcall.fn = "New" THEN [val |-> g.gen, err |-> g.err]
                          ELSE runGenerateResult(g, cfg, seed))
    /\ lpc' = "done"
    /\ UNCHANGED <<lcall, lnorm, ltmp, scratch, llog, lres>>
    /\ UNCHANGED <<valVars, cacheVars>>

\* the caller has its result; the next call starts from here
NextCall ==
    /\ lpc = "done"
    /\ lcall' = NoCall
    /\ lpc' = "idle"
    /\ lnorm' = <<>>
    /\ ltmp' = 0
    /\ llog' = <<>>
    /\ lres' = Nil
    /\ lout' = Nil
    /\ UNCHANGED scratch
    /\ UNCHANGED <<valVars, cacheVars>>


\* Generator construction and the template cache, under concurrency
Init ==
    /\ cfg = BaseConfig
    /\ disk \in SpecDirs
    /\ InitIdle

Next ==
    \/ \E p \in Procs, src \in LocalSources : StartCached(p, src)
    \/ \E p \in Procs, src \in LocalSources : StartUncached(p, src)
    \/ \E p \in Procs : GetCached(p)
    \/ \E p \in Procs : Load(p)
    \/ \E p \in Procs : WLock(p)
    \/ \E p \in Procs : CacheTemplate(p)
    \/ \E p \in Procs : Release(p)
    \/ CleanLock
    \/ CleanRun
    \/ Tick
    \/ \E d \in SpecDirs : EditDir(d)

Spec == Init /\ [][Next]_vars

\* ValidateConfig on every config of ConfigSet
InitV ==
    /\ cfg \in ConfigSet
    /\ disk = DirFull
    /\ InitIdle

NextV == Validate

SpecV == InitV /\ [][NextV]_vars

\* one caller: it constructs Generators from any source and runs Generate
InitG ==
    /\ cfg \in GenConfigs
    /\ disk \in DirCatalog
    /\ InitIdle

NextG ==
    \/ \E src \in Sources : StartCached(1, src)
    \/ \E src \in Sources : StartUncached(1, src)
    \/ GetCached(1)
    \/ Load(1)
    \/ WLock(1)
    \/ CacheTemplate(1)
    \/ Release(1)
    \/ GenerateCall(1)

SpecG == InitG /\ [][NextG]_vars

\* the loaders: LoadFromGit, generator.New and the generate command, called
\* one after another with every template source
DirFlags == {EmptySource, DirSource, MissingDir}
RepoFlags == {EmptySource} \cup Identifiers
LoaderDirs == {DirFull, DirMissing, DirOf(EmptyMap)}
LoaderConfigs == {BaseConfig, [BaseConfig EXCEPT !.Project = Nil]}

InitL ==
    /\ cfg \in LoaderConfigs
    /\ disk \in LoaderDirs
    /\ InitIdle

NextL ==
    \/ \E u \in Identifiers : CallLoadFromGit(u)
    \/ \E src \in TemplateSources : CallNew(src)
    \/ \E dir \in DirFlags, repo \in RepoFlags : RunGenerate(dir, repo)
    \/ LoadTemplates
    \/ ValidateURL
    \/ MkdirTemp
    \/ CloneRepository
    \/ RemoveScratch
    \/ ReturnFromGit
    \/ FinishNew
    \/ NextCall

SpecL == InitL /\ [][NextL]_vars

-----------------------------------------------------------------------------
(* Properties of the validator, checked under SpecV *)

\* the names a config declares, read off the config itself
DeclaredTemplates(c) ==
    IF IsNil(c.Compute) THEN {}
    ELSE {t.Name : t \in Range(Deref(c.Compute).InstanceTemplates)}

DeclaredGroups(c) ==
    IF IsNil(c.Compute) THEN {}
    ELSE {g.Name : g \in Range(Deref(c.Compute).InstanceGroups)}

DeclaredIps(c) ==
    IF IsNil(c.Networking) THEN {}
    ELSE {ip.Name : ip \in Range(Deref(c.Networking).ReservedIps)}

DeclaredNetworks(c) ==
    IF IsNil(c.Networking) THEN {}
    ELSE {v.Name : v \in Range(Deref(c.Networking).Vpcs)}

DeclaredSubnets(c) ==
    IF IsNil(c.Networking) THEN {}
    ELSE UNION {{sn.Name : sn \in Range(v.Subnets)} : v \in Range(Deref(c.Networking).Vpcs)}

DeclaredAccounts(c) ==
    IF IsNil(c.Iam) THEN {}
    ELSE {sa.AccountId : sa \in Range(Deref(c.Iam).ServiceAccounts)}

GroupsOf(c) == IF IsNil(c.Compute) THEN {} ELSE Range(Deref(c.Compute).InstanceGroups)
TemplatesOf(c) == IF IsNil(c.Compute) THEN {} ELSE Range(Deref(c.Compute).InstanceTemplates)

\* the references of instance groups and load balancers
GroupRefsResolve(c) == \A g \in GroupsOf(c) : g.Template \in DeclaredTemplates(c)
LbIpsResolve(c) == \A lb \in Range(c.LoadBalancers) : lb.Ip = "" \/ lb.Ip \in DeclaredIps(c)
LbBackendsResolve(c) == \A lb \in Range(c.LoadBalancers) : lb.Backend \in DeclaredGroups(c)

\* the references of network interfaces and to service accounts
IfaceRefsResolve(c) ==
    \A t \in TemplatesOf(c) : \A ifc \in Range(t.NetworkInterfaces) :
        /\ ifc.Network = "" \/ ifc.Network \in DeclaredNetworks(c)
        /\ ifc.Subnetwork = "" \/ ifc.Subnetwork \in DeclaredSubnets(c)

AccountRefsResolve(c) ==
    \A t \in TemplatesOf(c) : t.ServiceAccount = <<>> \/ t.ServiceAccount \in DeclaredAccounts(c)

Validated == ~IsNil(vres)
VErr == Deref(vres).err
VCalled == Deref(vres).called

\* C4: ValidateConfig returns an error for every Config whose Project section
\* is absent, whatever its other sections contain.
C4_ProjectRequired == (Validated /\ IsNil(cfg.Project)) => VErr # Nil

\* an absent Project beside sound sections: the project phase is the one
\* that rejects the config
C4_Witness ==
    /\ Validated
    /\ IsNil(cfg.Project)
    /\ cfg.Structural = "ok"
    /\ ~IsNil(cfg.Networking) /\ ~IsNil(cfg.Storage)
    /\ VErr # Nil
    /\ VErr[1].names = <<"project">>

\* C5: when ValidateConfig returns ok, every instance group's template and
\* every load balancer's ip (when given) and backend name a declared entity;
\* a config with a load balancer whose backend is declared nowhere fails, and
\* when the cross-reference phase reports it (the ip references resolving) the
\* error names the first such load balancer and its backend.
C5_ReferencesResolve ==
    Validated =>
        /\ VErr = Nil =>
              GroupRefsResolve(cfg) /\ LbIpsResolve(cfg) /\ LbBackendsResolve(cfg)
        /\ ~LbBackendsResolve(cfg) => VErr # Nil
        /\ (VErr # Nil /\ VErr[1].names = <<"cross-reference">> /\ LbIpsResolve(cfg)) =>
              LET lbs == cfg.LoadBalancers
                  i == Min({j \in DOMAIN lbs : lbs[j].Backend \notin DeclaredGroups(cfg)})
              IN  /\ ~LbBackendsResolve(cfg)
                  /\ ErrNames(Tail(VErr)) = {lbs[i].Name, lbs[i].Backend}

\* the second of two load balancers names a backend declared nowhere, every
\* other reference resolves, and the error names that load balancer
C5_Witness ==
    /\ Validated
    /\ Len(cfg.LoadBalancers) = 2
    /\ cfg.LoadBalancers[1].Backend \in DeclaredGroups(cfg)
    /\ cfg.LoadBalancers[2].Backend \notin DeclaredGroups(cfg)
    /\ cfg.LoadBalancers[2].Ip \in DeclaredIps(cfg)
    /\ VErr # Nil
    /\ VErr[1].names = <<"cross-reference">>
    /\ ErrNames(Tail(VErr)) = {"lb2", cfg.LoadBalancers[2].Backend}

\* C6: a config in which any name reference, the network or subnetwork of a
\* network interface and a service-account reference included, names an
\* entity declared nowhere fails ValidateConfig.
C6_EveryReferenceChecked ==
    (Validated /\ ~(/\ GroupRefsResolve(cfg) /\ LbIpsResolve(cfg) /\ LbBackendsResolve(cfg)
                    /\ IfaceRefsResolve(cfg) /\ AccountRefsResolve(cfg)))
        => VErr # Nil

\* C7: ValidateConfig is fail-fast over the fixed phase order: the error is
\* that of the earliest violated phase, wrapped with the phase's context, and
\* the phases called are those up to it; with no violation every phase that
\* applies is called and the result is ok.
C7_Order ==
    <<"proto", "project", "networking", "compute", "load balancer", "IAM", "storage",
      "cross-reference">>

C7_Violated(c) ==
    {k \in DOMAIN C7_Order :
        PhaseRuns(c, C7_Order[k]) /\ \E r \in RandSeeds : PhaseErr(c, C7_Order[k], r) # Nil}

C7_Applies(c, k) == SelectSeq(SubSeq(C7_Order, 1, k), LAMBDA ph : PhaseRuns(c, ph))

C7_FailFast ==
    Validated =>
        IF C7_Violated(cfg) = {}
        THEN VErr = Nil /\ VCalled = C7_Applies(cfg, Len(C7_Order))
        ELSE LET k == Min(C7_Violated(cfg)) IN
             /\ VErr # Nil
             /\ VErr[1] = [msg |-> "validation failed", names |-> <<C7_Order[k]>>,
                           vals |-> <<>>]
             /\ \E r \in RandSeeds : Tail(VErr) = PhaseErr(cfg, C7_Order[k], r)
             /\ VCalled = C7_Applies(cfg, k)

\* violations in compute, storage and the cross-references at once: the
\* compute error is the one returned, and nothing after compute was called
C7_Witness ==
    /\ Validated
    /\ {4, 7, 8} \subseteq C7_Violated(cfg)
    /\ Min(C7_Violated(cfg)) = 4
    /\ ~IsNil(cfg.Networking)
    /\ VErr # Nil
    /\ VErr[1].names = <<"compute">>
    /\ VCalled = <<"proto", "project", "networking", "compute">>

\* pairs of subnets of one VPC with the same CIDR: <<vpc, i, j>>, i before j
SameCidrPairs(c) ==
    IF IsNil(c.Networking) THEN {}
    ELSE LET vpcs == Deref(c.Networking).Vpcs IN
         {t \in UNION {{<<v, i, j>> : i, j \in DOMAIN vpcs[v].Subnets} : v \in DOMAIN vpcs} :
             /\ t[2] < t[3]
             /\ vpcs[t[1]].Subnets[t[2]].Cidr = vpcs[t[1]].Subnets[t[3]].Cidr}

SubnetAt(c, v, i) == Deref(c.Networking).Vpcs[v].Subnets[i]

\* C8 as stated: a VPC in which two subnets have the same CIDR fails
\* validation, and the returned error names both subnets that share the CIDR.
C8_NamesBothSubnets ==
    Validated =>
        \A t \in SameCidrPairs(cfg) :
            /\ VErr # Nil
            /\ (VErr[1].names = <<"networking">> /\ Cause(VErr).msg = "duplicate CIDR range in subnet")
                  => {SubnetAt(cfg, t[1], t[2]).Name, SubnetAt(cfg, t[1], t[3]).Name}
                        \subseteq ErrNames(VErr)

\* C8, amended: a VPC in which two subnets have the same CIDR fails
\* validation; the duplicate-CIDR error names the VPC, the shared CIDR and one
\* subnet only, a later one of a pair that shares the CIDR, never the earlier.
C8_NamesLaterSubnet ==
    Validated =>
        (SameCidrPairs(cfg) # {} =>
            /\ VErr # Nil
            /\ (VErr[1].names = <<"networking">> /\ Cause(VErr).msg = "duplicate CIDR range in subnet")
                  => \E t \in SameCidrPairs(cfg) :
                        /\ Cause(VErr).names = <<SubnetAt(cfg, t[1], t[3]).Name>>
                        /\ Cause(VErr).vals = <<SubnetAt(cfg, t[1], t[3]).Cidr>>
                        /\ ErrNames(Tail(VErr)) =
                              {Deref(cfg.Networking).Vpcs[t[1]].Name,
                               SubnetAt(cfg, t[1], t[3]).Name}
                        /\ SubnetAt(cfg, t[1], t[2]).Name \notin ErrNames(VErr))

\* two subnets with the same, well-formed CIDR: the error is the duplicate's
C8_Witness ==
    /\ Validated
    /\ SameCidrPairs(cfg) # {}
    /\ VErr # Nil
    /\ Cause(VErr).msg = "duplicate CIDR range in subnet"
    /\ Cause(VErr).names = <<"subnet-b">>

-----------------------------------------------------------------------------
(* Properties of Generate and of construction, checked under SpecG *)

Generated == ~IsNil(lastGen)
GTpl == Deref(lastGen).tpl
GFiles == Deref(lastGen).files
GErr == Deref(lastGen).err
GRendered == Deref(lastGen).rendered

\* the engine cannot execute the section's template from this set
Fails(tpl, name) == name \notin DOMAIN tpl \/ tpl[name] = "fail"

\* the sections Generate renders for a config whose template does not execute
FailingSections(tpl, c) == {n \in TemplateNameSet : SectionPresent(c, n) /\ Fails(tpl, n)}

HasKeys(files, keys) == ~IsNil(files) /\ keys \subseteq DOMAIN Deref(files)

C9_Order ==
    <<"project.tf", "networking.tf", "compute.tf", "load_balancers.tf", "iam.tf",
      "storage.tf", "variables.tf", "outputs.tf">>

C9_AbortsAtFailure ==
    Generated =>
        LET failing == FailingSections(GTpl, cfg)
            inOrder == SelectSeq(GRendered, LAMBDA n : n \in Range(C9_Order))
            expected == SelectSeq(C9_Order, LAMBDA n : SectionPresent(cfg, n))
        IN  /\ failing # {} <=> GErr # Nil
            /\ GErr # Nil =>
                  /\ IsNil(GFiles)
                  /\ GRendered[Len(GRendered)] \in failing
                  /\ Cause(GErr).names = <<GRendered[Len(GRendered)]>>
                  /\ \A i \in 1..(Len(GRendered) - 1) : GRendered[i] \notin failing
            /\ GErr = Nil => ~IsNil(GFiles) /\ inOrder = expected
            /\ Len(inOrder) <= Len(expected)
            /\ inOrder = SubSeq(expected, 1, Len(inOrder))

\* all six sections present and the IAM template failing: four sections were
\* rendered before it, none after it, and no map is returned
C9_Witness ==
    /\ Generated
    /\ \A n \in Range(C9_Order) : SectionPresent(cfg, n)
    /\ "iam.tf" \in DOMAIN GTpl /\ GTpl["iam.tf"] = "fail"
    /\ GErr # Nil
    /\ IsNil(GFiles)
    /\ GRendered = <<"project.tf", "networking.tf", "compute.tf", "load_balancers.tf", "iam.tf">>

\* the source cannot be resolved, or one of its bodies does not parse
CannotLoad(src, d) ==
    \/ src = GitSource
    \/ /\ src = DirSource
       /\ \/ ~d.exists
          \/ DOMAIN d.files = {}
          \/ \E n \in DOMAIN d.files : d.files[n] = "bad"

\* C10: construction is all-or-nothing: when the source cannot be resolved
\* or a body fails to compile, NewWithOptions returns an error and no
\* Generator; a Generator that is returned holds only compiled templates.
C10_AllOrNothing ==
    \A p \in Procs :
        /\ pc[p] = "failed" => gerr[p] # Nil /\ IsNil(gret[p])
        /\ pc[p] = "ready" =>
              /\ gerr[p] = Nil
              /\ ~IsNil(gret[p])
              /\ \A n \in DOMAIN Deref(gret[p]).templates : Deref(gret[p]).templates[n] # "bad"
        /\ (ghist[p].resolved /\ pc[p] # "load" /\ CannotLoad(gsrc[p], disk)) =>
              pc[p] = "failed"

\* a directory with one body that does not parse: the bodies before it were
\* parsed into g.templates, and the caller gets the error and no Generator
C10_Witness ==
    /\ pc[1] = "failed"
    /\ gsrc[1] = DirSource
    /\ ~IsNil(gtpl[1])
    /\ DOMAIN Deref(gtpl[1]) # {}
    /\ IsNil(gret[1])
    /\ gerr[1] # Nil
    /\ Cause(gerr[1]).msg = "failed to parse template"

-----------------------------------------------------------------------------
(* Properties of the template cache, checked under Spec *)

\* C2: a construction with caching enabled that finds the source's entry
\* less than the TTL after its load resolves nothing and receives the cached
\* unit; one that finds no entry, or finds the entry after the TTL has
\* expired, invokes the resolver.
C2_ResolvesOncePerTtl ==
    \A p \in Procs :
        (ghist[p].read /\ pc[p] # "load") =>
            IF IsNil(ghist[p].entry) THEN ghist[p].resolved
            ELSE /\ ghist[p].age < cacheTimeout =>
                       /\ ~ghist[p].resolved
                       /\ pc[p] = "ready"
                       /\ Deref(gret[p]).templates = Deref(ghist[p].entry).templates
                 /\ ghist[p].age > cacheTimeout => ghist[p].resolved

\* one construction found the entry three minutes after its load and took
\* the cached unit; another found it after the TTL and resolved again
C2_Witness ==
    \E p, q \in Procs :
        /\ pc[p] = "ready" /\ ghist[p].read /\ ~IsNil(ghist[p].entry)
        /\ ghist[p].age > 0 /\ ghist[p].age < cacheTimeout
        /\ ~ghist[p].resolved
        /\ pc[q] = "ready" /\ ghist[q].read /\ ~IsNil(ghist[q].entry)
        /\ ghist[q].age > cacheTimeout
        /\ ghist[q].resolved
        /\ gsrc[p] = gsrc[q]

\* C11: constructions that race on an absent or expired entry of one source
\* each resolve and compile on their own; each write replaces whatever entry
\* the source has with the writer's unit, so the entry is that of the last
\* writer, and the writer's construction returns a Generator with its unit.
C11_LastWriteWins ==
    [][\A p \in Procs :
          (pc[p] = "writing" /\ pc'[p] = "ready") =>
              /\ templateCache'[gsrc[p]] =
                    Ptr([templates |-> Deref(gtpl[p]), loadTime |-> now, source |-> gsrc[p]])
              /\ \A s \in Sources \ {gsrc[p]} : templateCache'[s] = templateCache[s]
              /\ gerr'[p] = Nil
              /\ ~IsNil(gret'[p])
              /\ Deref(gret'[p]).templates = Deref(gtpl[p])]_vars

\* two constructions of the directory source both missed on the absent
\* entry and compiled different states of the directory; both returned a
\* Generator, and the entry is the unit of one of them
C11_Witness ==
    \E p, q \in Procs :
        /\ p # q
        /\ gsrc[p] = DirSource /\ gsrc[q] = DirSource
        /\ pc[p] = "ready" /\ pc[q] = "ready"
        /\ gcache[p] /\ gcache[q]
        /\ ghist[p].read /\ IsNil(ghist[p].entry) /\ ghist[p].resolved
        /\ ghist[q].read /\ IsNil(ghist[q].entry) /\ ghist[q].resolved
        /\ Deref(gret[p]).templates # Deref(gret[q]).templates
        /\ ~IsNil(templateCache[DirSource])
        /\ Deref(templateCache[DirSource]).templates = Deref(gret[q]).templates

\* the processes inside getCachedTemplate, and those inside cacheTemplate or
\* cleanExpiredCache
CacheReaders == {p \in Procs : pc[p] = "reading"}
CacheWriters ==
    {p \in Procs : pc[p] = "writing"} \cup (IF writer = Ptr(Cleaner) THEN {Cleaner} ELSE {})

\* C12: every access to the template cache is made under cacheMutex: a
\* writer (cacheTemplate, cleanExpiredCache) is never in the cache together
\* with another writer or with a reader; readers may be in it together.
C12_ReadersWriterExclusion ==
    /\ Cardinality(CacheWriters) <= 1
    /\ CacheWriters # {} => CacheReaders = {}
    /\ CacheReaders \subseteq readers
    /\ \A w \in CacheWriters : writer = Ptr(w)

\* two constructions are inside getCachedTemplate at once, an eviction pending
C12_Witness ==
    /\ Cardinality(CacheReaders) = 2
    /\ readers = CacheReaders
    /\ IsNil(writer)
    /\ cleaners > 0

\* C13: a cache read of an entry older than the TTL is a miss (the
\* construction goes on to resolve and compile) and starts an asynchronous
\* removal, the entry staying in the cache for the moment; a read of an entry
\* within the TTL is a hit and starts nothing; the removal, when it runs,
\* deletes the entries that are expired then and no others.
C13_ExpiredReadMissesAndEvicts ==
    [][/\ \A p \in Procs :
             (pc[p] = "reading" /\ pc'[p] # "reading" /\ ~IsNil(templateCache[gsrc[p]])) =>
                 LET entry == Deref(templateCache[gsrc[p]]) IN
                 /\ templateCache' = templateCache
                 /\ IF now - entry.loadTime > cacheTimeout
                    THEN /\ pc'[p] = "load"
                         /\ IsNil(gtpl'[p])
                         /\ cleaners' > 0
                         /\ cleaners < MaxCleaners => cleaners' = cleaners + 1
                    ELSE /\ pc'[p] = "ready"
                         /\ gtpl'[p] = Ptr(entry.templates)
                         /\ cleaners' = cleaners
       /\ (writer = Ptr(Cleaner) /\ IsNil(writer')) =>
             \A s \in Sources :
                 templateCache'[s] =
                     IF /\ ~IsNil(templateCache[s])
                        /\ now - Deref(templateCache[s]).loadTime > cacheTimeout
                     THEN Nil ELSE templateCache[s]]_vars

\* a construction has just read an entry six minutes old: it is about to
\* resolve, a removal is pending and the entry is still in the cache
C13_Witness ==
    \E p \in Procs :
        /\ pc[p] = "load"
        /\ ghist[p].read /\ ~IsNil(ghist[p].entry) /\ ~ghist[p].resolved
        /\ ghist[p].age > cacheTimeout
        /\ cleaners > 0
        /\ templateCache[gsrc[p]] = ghist[p].entry

\* C14: the background eviction never blocks a caller's cache read or
\* write: while cleanExpiredCache runs, a construction that calls
\* getCachedTemplate or cacheTemplate can take its step.
C14_EvictionNeverBlocks ==
    writer = Ptr(Cleaner) =>
        \A p \in Procs :
            /\ pc[p] = "idle" => \A src \in LocalSources : ENABLED StartCached(p, src)
            /\ pc[p] = "loaded" => ENABLED WLock(p)

-----------------------------------------------------------------------------
(* The order of declaration, checked under SpecV *)

\* every order of the elements of a list
PermsOf(s) ==
    IF s = <<>> THEN {<<>>}
    ELSE {[i \in DOMAIN s |-> s[p[i]]] : p \in Permutations(DOMAIN s)}

Reverse(s) == [i \in DOMAIN s |-> s[Len(s) + 1 - i]]

\* the configs that differ from c in the order of one collection
ReorderedNetworking(c) ==
    IF IsNil(c.Networking) THEN {}
    ELSE LET n == Deref(c.Networking) IN
         {[c EXCEPT !.Networking = Ptr([n EXCEPT !.ReservedIps = p])] :
             p \in PermsOf(n.ReservedIps)}
         \cup UNION {{[c EXCEPT !.Networking = Ptr([n EXCEPT !.Vpcs[v].Subnets = p])] :
                         p \in PermsOf(n.Vpcs[v].Subnets)} : v \in DOMAIN n.Vpcs}

ReorderedCompute(c) ==
    IF IsNil(c.Compute) THEN {}
    ELSE LET m == Deref(c.Compute) IN
         {[c EXCEPT !.Compute = Ptr([m EXCEPT !.InstanceTemplates = p])] :
             p \in PermsOf(m.InstanceTemplates)}
         \cup {[c EXCEPT !.Compute = Ptr([m EXCEPT !.InstanceGroups = p])] :
                  p \in PermsOf(m.InstanceGroups)}

ReorderedIam(c) ==
    IF IsNil(c.Iam) THEN {}
    ELSE LET a == Deref(c.Iam) IN
         {[c EXCEPT !.Iam = Ptr([a EXCEPT !.ServiceAccounts = p])] :
             p \in PermsOf(a.ServiceAccounts)}
         \cup {[c EXCEPT !.Iam = Ptr([a EXCEPT !.CustomRoles = p])] :
                  p \in PermsOf(a.CustomRoles)}

ReorderedStorage(c) ==
    IF IsNil(c.Storage) THEN {}
    ELSE {[c EXCEPT !.Storage = Ptr([Buckets |-> p])] :
             p \in PermsOf(Deref(c.Storage).Buckets)}

\* the config with every collection in the opposite order
Reversed(c) ==
    [c EXCEPT
        !.Networking =
            IF IsNil(c.Networking) THEN Nil
            ELSE Ptr([Deref(c.Networking) EXCEPT
                         !.ReservedIps = Reverse(@),
                         !.Vpcs = [v \in DOMAIN @ |-> [@[v] EXCEPT !.Subnets = Reverse(@)]]]),
        !.Compute =
            IF IsNil(c.Compute) THEN Nil
            ELSE Ptr([Deref(c.Compute) EXCEPT !.InstanceTemplates = Reverse(@),
                                              !.InstanceGroups = Reverse(@)]),
        !.LoadBalancers = Reverse(@),
        !.Iam =
            IF IsNil(c.Iam) THEN Nil
            ELSE Ptr([Deref(c.Iam) EXCEPT !.ServiceAccounts = Reverse(@),
                                          !.CustomRoles = Reverse(@)]),
        !.Storage =
            IF IsNil(c.Storage) THEN Nil
            ELSE Ptr([Buckets |-> Reverse(Deref(c.Storage).Buckets)])]

Reorderings(c) ==
    ReorderedNetworking(c) \cup ReorderedCompute(c) \cup ReorderedIam(c)
    \cup ReorderedStorage(c)
    \cup {[c EXCEPT !.LoadBalancers = p] : p \in PermsOf(c.LoadBalancers)}
    \cup {Reversed(c)}

\* C19: whether ValidateConfig accepts a config does not depend on the order
\* in which the entities of a collection are declared: the config with the
\* subnets of a VPC, the instance templates, the instance groups, the load
\* balancers, the reserved IPs, the service accounts, the custom roles or the
\* buckets in another order, or with all of them reversed, gets the same verdict
C19_OrderIndependent ==
    Validated =>
        \A c \in Reorderings(cfg), r \in RandSeeds :
            (ValidateConfig(c, r).err = Nil) <=> (VErr = Nil)

C19_Witness ==
    /\ Validated
    /\ VErr # Nil
    /\ ~IsNil(cfg.Networking)
    /\ Len(Deref(cfg.Networking).Vpcs) = 1
    /\ Len(Deref(cfg.Networking).Vpcs[1].Subnets) = 2
    /\ cidrsOverlap(Deref(cfg.Networking).Vpcs[1].Subnets[1].Cidr,
                    Deref(cfg.Networking).Vpcs[1].Subnets[2].Cidr)
    /\ \E c \in ReorderedNetworking(cfg) :
          /\ c # cfg
          /\ ValidateConfig(c, 0).err # Nil
          /\ ErrNames(ValidateConfig(c, 0).err) # ErrNames(VErr)

-----------------------------------------------------------------------------
(* The data of the section templates, checked under SpecG *)

CoreSections ==
    {"project.tf", "networking.tf", "compute.tf", "load_balancers.tf", "iam.tf",
     "storage.tf"}

\* the section as the config holds it
RawSection(c, name) ==
    CASE name = "project.tf" -> Deref(c.Project)
      [] name = "networking.tf" -> Deref(c.Networking)
      [] name = "compute.tf" -> Deref(c.Compute)
      [] name = "load_balancers.tf" -> c.LoadBalancers
      [] name = "iam.tf" -> Deref(c.Iam)
      [] name = "storage.tf" -> Deref(c.Storage)

\* the sections whose text is in the output map, and what each was rendered from
Rendered(name) == name \in DOMAIN Deref(GFiles) /\ Deref(GFiles)[name] # <<>>
RenderedBy(name) == Deref(GFiles)[name][1].template
RenderedFrom(name) == Deref(GFiles)[name][1].data

\* d is an execution context around the raw data
PairsRawWithFacts(d, raw) ==
    /\ d # raw
    /\ DOMAIN d = {"Data", "Dependencies"}
    /\ d.Data = raw
    /\ DOMAIN d.Dependencies =
          {"RequiresProjectAPIs", "ProjectAPIs", "RequiresNetworking", "NetworkDependencies"}

\* the network and subnetwork names the interfaces of a list of instance
\* templates or instances mention
NetworkRefs(owners) ==
    UNION {{<<"google_compute_network", owners[i].NetworkInterfaces[j].Network>> :
               j \in {k \in DOMAIN owners[i].NetworkInterfaces :
                         owners[i].NetworkInterfaces[k].Network # ""}}
           \cup {<<"google_compute_subnetwork", owners[i].NetworkInterfaces[j].Subnetwork>> :
                    j \in {k \in DOMAIN owners[i].NetworkInterfaces :
                              owners[i].NetworkInterfaces[k].Subnetwork # ""}} :
           i \in DOMAIN owners}

\* the facts of a context are those of this call's section
FactsOfThisCall(deps, c, name) ==
    /\ deps.RequiresProjectAPIs = (name # "iam.tf")
    /\ deps.ProjectAPIs = IF name = "iam.tf" THEN <<>> ELSE <<"compute.googleapis.com">>
    /\ deps.RequiresNetworking = (deps.NetworkDependencies # <<>>)
    /\ Range(deps.NetworkDependencies) =
          IF name = "compute.tf"
          THEN NetworkRefs(Deref(c.Compute).InstanceTemplates)
               \cup NetworkRefs(Deref(c.Compute).Instances)
          ELSE {}

-----------------------------------------------------------------------------
(* Properties of the loaders, checked under SpecL *)

LCalled(name) == name \in Range(llog)

\* the identifiers whose host is not on the allow-list, in every form
ForeignIdentifiers == UNION {UrlForms(h) : h \in ForeignHosts}

\* C15: LoadFromGit returns an error for every identifier whose host is not
\* on the allow-list, in the HTTPS, the SSH and the short form alike, and
\* then neither makes a scratch directory nor starts a clone; no call makes a
\* scratch directory or starts a clone before the URL has passed validation
C15_ForeignHostRejected ==
    /\ (LCalled("LoadFromGit") /\ lcall.src \in ForeignIdentifiers) =>
          /\ ~LCalled("MkdirTemp")
          /\ ~LCalled("cloneGitRepository")
          /\ ltmp = 0
          /\ lpc \in {"validate", "return", "resolved", "done"}
          /\ lpc \in {"return", "resolved"} =>
                /\ Deref(lres).err # Nil
                /\ Deref(lres).content = EmptyMap
          /\ lpc = "done" => Deref(lout).err # Nil
    /\ \A i \in DOMAIN llog :
          llog[i] \in {"MkdirTemp", "cloneGitRepository"} =>
              /\ \E j \in 1..(i - 1) : llog[j] = "validateAndNormalizeGitURL"
              /\ lnorm # <<>>

C15_Witness ==
    /\ lcall.fn = "LoadFromGit"
    /\ lcall.src = ShortURL(EvilHost)
    /\ lpc = "done"
    /\ llog = <<"LoadFromGit", "validateAndNormalizeGitURL">>
    /\ Deref(lout).err[1].msg = "invalid Git repository URL"
    /\ Deref(lout).err[2] = [msg |-> "Git host is not allowed", names |-> <<>>,
                             vals |-> <<EvilHost>>]
    /\ scratch = {}

ShortForms == {ShortURL(h) : h \in allowedHosts}

\* C17: a Generator constructed from a source in the short form
\* host/org/repo loads its templates with LoadFromGit, not LoadFromDirectory
C17_ShortFormLoadsFromGit ==
    (lcall.fn \in {"New", "runGenerate"} /\ lcall.src \in ShortForms
        /\ lpc \in {"validate", "resolved", "done"}) =>
            /\ LCalled("LoadFromGit")
            /\ ~LCalled("LoadFromDirectory")

\* C18: the generate command takes --template-dir, then --template-repo,
\* then the built-in set, and when the source it took cannot be loaded it
\* generates from the next one instead of failing
C18_FailsOverToNextSource ==
    (lcall.fn = "runGenerate" /\ lpc = "done" /\ Valid(cfg)) =>
        /\ lcall.src = selectTemplateSource(lcall.dir, lcall.repo)
        /\ Deref(lres).err # Nil =>
              /\ Deref(lout).err = Nil
              /\ ~IsNil(Deref(lout).val)

-----------------------------------------------------------------------------
(* The keys of the output map, checked under SpecG *)

\* the rendered text of a section is empty
RendersEmpty(name) == GTpl[name] = "empty"

\* C21: in the map Generate returns, networking.tf, compute.tf, iam.tf and
\* storage.tf are keys only when their section is present and its text is
\* not empty; project.tf is a key whenever Project is present,
\* load_balancers.tf whenever a load balancer is declared, variables.tf and
\* outputs.tf always, each with its text even when that is empty; an absent
\* section has no key
C21_KeysOfOutputMap ==
    (Generated /\ GErr = Nil) =>
        /\ \A name \in {"networking.tf", "compute.tf", "iam.tf", "storage.tf"} :
              name \in DOMAIN Deref(GFiles) <=>
                  (SectionPresent(cfg, name) /\ ~RendersEmpty(name))
        /\ ("project.tf" \in DOMAIN Deref(GFiles)) <=> ~IsNil(cfg.Project)
        /\ ("load_balancers.tf" \in DOMAIN Deref(GFiles)) <=> (Len(cfg.LoadBalancers) > 0)
        /\ {"variables.tf", "outputs.tf"} \subseteq DOMAIN Deref(GFiles)
        /\ \A name \in {"project.tf", "load_balancers.tf", "variables.tf", "outputs.tf"} :
              (name \in DOMAIN Deref(GFiles) /\ RendersEmpty(name)) =>
                  Deref(GFiles)[name] = <<>>
        /\ \A name \in DOMAIN Deref(GFiles) :
              /\ SectionPresent(cfg, name)
              /\ ~RendersEmpty(name) => Deref(GFiles)[name] # <<>>

C21_Witness ==
    /\ Generated
    /\ GErr = Nil
    /\ \A name \in CoreSections : SectionPresent(cfg, name)
    /\ RendersEmpty("storage.tf")
    /\ DOMAIN Deref(GFiles) =
          {"project.tf", "networking.tf", "compute.tf", "load_balancers.tf", "iam.tf",
           "variables.tf", "outputs.tf"}

-----------------------------------------------------------------------------
(* The rules on single entities, checked under SpecV *)

FirewallRulesOf(c) == IF IsNil(c.Networking) THEN <<>> ELSE Deref(c.Networking).FirewallRules

\* what C22 forbids in a firewall rule
RuleForbidden(ru) ==
    \/ ru.Allow # <<>> /\ ru.Deny # <<>>
    \/ ru.Allow = <<>> /\ ru.Deny = <<>>
    \/ ru.Direction = "EGRESS" /\ (ru.SourceRanges # <<>> \/ ru.SourceTags # <<>>)
    \/ ru.Direction = "INGRESS" /\ ru.DestinationRanges # <<>>

\* C22: ValidateConfig returns an error for a config with a firewall rule
\* that has both or neither of allow and deny, that is EGRESS with source
\* ranges or source tags, or INGRESS with destination ranges; in a config it
\* accepts every firewall rule has exactly one of allow and deny
C22_FirewallRules ==
    Validated =>
        /\ (\E i \in DOMAIN FirewallRulesOf(cfg) : RuleForbidden(FirewallRulesOf(cfg)[i]))
              => VErr # Nil
        /\ VErr = Nil =>
              \A i \in DOMAIN FirewallRulesOf(cfg) :
                  (FirewallRulesOf(cfg)[i].Allow = <<>>) # (FirewallRulesOf(cfg)[i].Deny = <<>>)

C22_Witness ==
    /\ Validated
    /\ Len(FirewallRulesOf(cfg)) = 2
    /\ FirewallRulesOf(cfg)[2] =
          [Name |-> "rule-x", Direction |-> "EGRESS", SourceRanges |-> <<>>,
           DestinationRanges |-> <<CidrGood>>, SourceTags |-> <<"web">>,
           Allow |-> <<>>, Deny |-> <<"udp">>]
    /\ VErr # Nil
    /\ Cause(VErr).msg = "EGRESS rules cannot have source_tags"
    /\ "rule-x" \in ErrNames(VErr)

ReservedIpsOf(c) == IF IsNil(c.Networking) THEN <<>> ELSE Deref(c.Networking).ReservedIps

\* C23: ValidateConfig returns an error for a config with a regional
\* reserved address that has no region or a global one that has a region; in
\* a config it accepts every regional reserved address has a region and no
\* global one has
C23_ReservedAddresses ==
    Validated =>
        /\ (\E i \in DOMAIN ReservedIpsOf(cfg) :
               \/ /\ ReservedIpsOf(cfg)[i].Type = "REGIONAL"
                  /\ ReservedIpsOf(cfg)[i].Region = "REGION_UNSPECIFIED"
               \/ /\ ReservedIpsOf(cfg)[i].Type = "GLOBAL"
                  /\ ReservedIpsOf(cfg)[i].Region # "REGION_UNSPECIFIED")
              => VErr # Nil
        /\ VErr = Nil =>
              \A i \in DOMAIN ReservedIpsOf(cfg) :
                  /\ ReservedIpsOf(cfg)[i].Type = "REGIONAL" =>
                        ReservedIpsOf(cfg)[i].Region # "REGION_UNSPECIFIED"
                  /\ ReservedIpsOf(cfg)[i].Type = "GLOBAL" =>
                        ReservedIpsOf(cfg)[i].Region = "REGION_UNSPECIFIED"

C23_Witness ==
    /\ Validated
    /\ ReservedIpsOf(cfg) =
          <<[Name |-> "ip1", Type |-> "REGIONAL", Region |-> "US_CENTRAL1"],
            [Name |-> "ip2", Type |-> "GLOBAL", Region |-> "US_CENTRAL1"]>>
    /\ VErr # Nil
    /\ Cause(VErr).msg = "global reserved IP should not specify a region"
    /\ "ip2" \in ErrNames(VErr)

InstanceGroupsOf(c) == IF IsNil(c.Compute) THEN <<>> ELSE Deref(c.Compute).InstanceGroups

\* the CPU target is a number of the interval (0, 1]
InUnitInterval(x) == ~x.nan /\ 0 < x.val /\ x.val <= 100

\* C24: ValidateConfig returns an error for a config with an instance group
\* whose AutoScaling has min > max or a cpu_target outside (0, 1]; an
\* instance group without AutoScaling passes validateInstanceGroup
C24_AutoScalingBounds ==
    Validated =>
        /\ (\E i \in DOMAIN InstanceGroupsOf(cfg) :
               /\ ~IsNil(InstanceGroupsOf(cfg)[i].AutoScaling)
               /\ \/ Deref(InstanceGroupsOf(cfg)[i].AutoScaling).Min >
                        Deref(InstanceGroupsOf(cfg)[i].AutoScaling).Max
                  \/ ~InUnitInterval(Deref(InstanceGroupsOf(cfg)[i].AutoScaling).CpuTarget))
              => VErr # Nil
        /\ \A i \in DOMAIN InstanceGroupsOf(cfg) :
              IsNil(InstanceGroupsOf(cfg)[i].AutoScaling) =>
                  validateInstanceGroup(InstanceGroupsOf(cfg)[i]) = Nil

\* no two positions of the list carry the same key
Distinct(s, Key(_)) == \A i, j \in DOMAIN s : i # j => Key(s[i]) # Key(s[j])

TemplatesDistinct(c) ==
    IsNil(c.Compute) \/ Distinct(Deref(c.Compute).InstanceTemplates, LAMBDA t : t.Name)
BucketsDistinct(c) ==
    IsNil(c.Storage) \/ Distinct(Deref(c.Storage).Buckets, LAMBDA b : b.Name)
AccountsDistinct(c) ==
    IsNil(c.Iam) \/ Distinct(Deref(c.Iam).ServiceAccounts, LAMBDA a : a.AccountId)
RolesDistinct(c) ==
    IsNil(c.Iam) \/ Distinct(Deref(c.Iam).CustomRoles, LAMBDA r : r.RoleId)

\* C25: ValidateConfig accepts a config only if the names of its instance
\* templates, the names of its buckets, the account ids of its service
\* accounts and the role ids of its custom roles are pairwise distinct
C25_NamesUnique ==
    (Validated /\ VErr = Nil) =>
        /\ TemplatesDistinct(cfg)
        /\ BucketsDistinct(cfg)
        /\ AccountsDistinct(cfg)
        /\ RolesDistinct(cfg)

C25_Witness ==
    /\ Validated
    /\ ~IsNil(cfg.Storage)
    /\ Len(Deref(cfg.Storage).Buckets) = 2
    /\ ~BucketsDistinct(cfg)
    /\ \A i \in 1..2 : validateStorageBucket(Deref(cfg.Storage).Buckets[i]) = Nil
    /\ VErr # Nil
    /\ Cause(VErr).msg = "duplicate bucket name"

-----------------------------------------------------------------------------
(* The dependency facts of the compute section, checked under SpecG *)

\* the interfaces of a list of instance templates or instances whose network
\* (or subnetwork) reference is the entry x
ReferencesTo(owners, x) ==
    {p \in UNION {{<<i, j>> : j \in DOMAIN owners[i].NetworkInterfaces} :
                     i \in DOMAIN owners} :
        LET iface == owners[p[1]].NetworkInterfaces[p[2]]
            name == IF x[1] = "google_compute_network" THEN iface.Network
                    ELSE iface.Subnetwork
        IN name # "" /\ name = x[2]}

EntriesOf(deps, x) == {i \in DOMAIN deps : deps[i] = x}

\* C26: the dependency facts the compute template is rendered with hold one
\* entry google_compute_network.<name> for every non-empty network reference
\* and one entry google_compute_subnetwork.<name> for every non-empty
\* subnetwork reference of the interfaces of the instance templates and the
\* instances, and no other entry, whether or not the name is declared in
\* Networking; RequiresNetworking is true exactly when there is an entry;
\* the required API services are compute.googleapis.com
C26_ComputeDependencies ==
    (Generated /\ GErr = Nil /\ ~IsNil(cfg.Compute) /\ Rendered("compute.tf")) =>
        LET compute == Deref(cfg.Compute)
            facts == RenderedFrom("compute.tf").Dependencies
            deps == facts.NetworkDependencies
            refs == NetworkRefs(compute.InstanceTemplates)
                    \cup NetworkRefs(compute.Instances)
        IN /\ \A x \in refs \cup Range(deps) :
                  /\ x[1] \in {"google_compute_network", "google_compute_subnetwork"}
                  /\ Cardinality(EntriesOf(deps, x)) =
                        Cardinality(ReferencesTo(compute.InstanceTemplates, x))
                        + Cardinality(ReferencesTo(compute.Instances, x))
           /\ facts.RequiresNetworking = (refs # {})
           /\ facts.RequiresNetworking = (deps # <<>>)
           /\ facts.RequiresProjectAPIs
           /\ facts.ProjectAPIs = <<"compute.googleapis.com">>

\* a network that Networking does not declare is referenced by two
\* interfaces and has two entries
C26_Witness ==
    /\ Generated
    /\ GErr = Nil
    /\ ~IsNil(cfg.Compute)
    /\ Rendered("compute.tf")
    /\ "ghost" \notin DeclaredNetworks(cfg)
    /\ Cardinality(EntriesOf(RenderedFrom("compute.tf").Dependencies.NetworkDependencies,
                             <<"google_compute_network", "ghost">>)) = 2
    /\ Cardinality(ReferencesTo(Deref(cfg.Compute).InstanceTemplates,
                                <<"google_compute_network", "ghost">>)) = 2

-----------------------------------------------------------------------------
(* Constructions and the cache's contents, checked under Spec *)

\* where a construction with DisableCache can be, and what it has done
BypassesCache(p) ==
    /\ pc[p] \in {"load", "ready", "failed"}
    /\ p \notin readers
    /\ writer # Ptr(p)
    /\ ~ghist[p].read
    /\ pc[p] \in {"ready", "failed"} => ghist[p].resolved
    /\ pc[p] = "ready" <=> ~IsNil(gret[p])

\* C27: a construction with DisableCache neither reads nor writes the
\* template cache: it takes no lock of the cache, it resolves its source and
\* compiles whatever the cache holds, and none of its steps changes the
\* cache's contents or starts an eviction
C27_UncachedLeavesCacheAlone ==
    [][\A p \in Procs :
          (pc'[p] # pc[p] /\ (~gcache[p] \/ ~gcache'[p])) =>
              /\ templateCache' = templateCache
              /\ cleaners' = cleaners
              /\ ~gcache'[p] => BypassesCache(p)']_vars

\* a construction with DisableCache has returned a Generator compiled from
\* the directory as it is now while the cache holds a fresh entry of the
\* same source with other templates
C27_Witness ==
    \E p \in Procs :
        /\ ~gcache[p]
        /\ pc[p] = "ready"
        /\ ghist[p].resolved
        /\ ~IsNil(templateCache[gsrc[p]])
        /\ ~Expired(Deref(templateCache[gsrc[p]]), now)
        /\ Deref(templateCache[gsrc[p]]).templates # Deref(gret[p]).templates

\* the entry is older than the TTL at time t
OlderThanTTL(entry, t) == ~IsNil(entry) /\ t - Deref(entry).loadTime > cacheTimeout

\* C28: the background eviction removes the entries whose age exceeds the
\* TTL at the moment it runs, of every source, and no other entry: an entry
\* that replaced the expired one whose read started the eviction stays
C28_EvictionRemovesTheExpired ==
    [][(writer = Ptr(Cleaner) /\ IsNil(writer')) =>
          /\ \A s \in Sources :
                 /\ OlderThanTTL(templateCache[s], now) => IsNil(templateCache'[s])
                 /\ ~OlderThanTTL(templateCache[s], now) =>
                        templateCache'[s] = templateCache[s]
          /\ \A p \in Procs :
                 (/\ ghist[p].read
                  /\ ghist[p].age > cacheTimeout
                  /\ templateCache[gsrc[p]] # ghist[p].entry
                  /\ ~OlderThanTTL(templateCache[gsrc[p]], now)) =>
                     templateCache'[gsrc[p]] = templateCache[gsrc[p]]]_vars

\* an eviction has run after the expired entry a construction had read was
\* replaced: the replacement is still in the cache, and the expired entry of
\* another source is gone
C28_Witness ==
    /\ ~IsNil(lastClean)
    /\ \E p \in Procs :
          LET ran == Deref(lastClean)
              s == gsrc[p]
          IN /\ ghist[p].read
             /\ ghist[p].age > cacheTimeout
             /\ ~IsNil(ran.before[s])
             /\ ran.before[s] # ghist[p].entry
             /\ ~OlderThanTTL(ran.before[s], ran.at)
             /\ templateCache[s] = ran.before[s]
             /\ \E other \in Sources \ {s} :
                    /\ OlderThanTTL(ran.before[other], ran.at)
                    /\ IsNil(templateCache[other])

\* the construction of p ends in failure with this step
EndsInFailure(p) == pc[p] # "failed" /\ pc'[p] = "failed"

\* the construction of p ends with a Generator with this step
EndsInSuccess(p) ==
    /\ pc[p] # "ready" /\ pc'[p] = "ready"
    /\ gerr'[p] = Nil /\ ~IsNil(gret'[p])

\* a failing construction writes nothing, and a step that stores an entry for
\* a source is the last step of a successful construction from that source
EntriesComeFromSuccess ==
    /\ \A p \in Procs :
           /\ EndsInFailure(p) =>
                 /\ templateCache' = templateCache
                 /\ gerr'[p] # Nil /\ IsNil(gret'[p])
           /\ pc'[p] \in {"loaded", "writing"} => ~IsNil(gtpl'[p])
    /\ \A s \in Sources :
           (templateCache'[s] # templateCache[s] /\ ~IsNil(templateCache'[s])) =>
               \E p \in Procs :
                   /\ EndsInSuccess(p)
                   /\ gsrc[p] = s
                   /\ Deref(templateCache'[s]).source = s
                   /\ Deref(templateCache'[s]).templates = Deref(gret'[p]).templates

\* p was started after a construction from its source had failed, and has
\* returned
ReturnedAfterFailure(p) == ghist[p].follows /\ pc[p] \in {"ready", "failed"}

\* C29 as stated: a failing construction writes no cache entry, an entry
\* exists only by a successful construction from exactly its source, and a
\* construction that follows a failed one resolves the source again
C29_FailureForcesResolve ==
    [][/\ EntriesComeFromSuccess
       /\ \A p \in Procs : ReturnedAfterFailure(p)' => ghist'[p].resolved]_vars

\* C29, amended: a failing construction writes no cache entry and an entry
\* exists only by a successful construction from exactly its source; a
\* construction that follows a failed one resolves the source again unless
\* its cache read finds an entry within the TTL, which a successful
\* construction from the same source has left
C29_EntriesComeFromSuccess ==
    [][/\ EntriesComeFromSuccess
       /\ \A p \in Procs :
              ReturnedAfterFailure(p)' =>
                  \/ ghist'[p].resolved
                  \/ /\ gcache'[p]
                     /\ ghist'[p].read
                     /\ ~IsNil(ghist'[p].entry)
                     /\ ghist'[p].age <= cacheTimeout
                     /\ Deref(ghist'[p].entry).source = gsrc'[p]
                     /\ Deref(gret'[p]).templates = Deref(ghist'[p].entry).templates]_vars

\* a construction with the cache enabled has failed and left no entry, and
\* the construction from the same source that followed it has resolved again
C29_Witness ==
    \E p, q \in Procs :
        /\ p # q
        /\ pc[q] = "failed" /\ gcache[q] /\ ghist[q].read
        /\ IsNil(templateCache[gsrc[q]])
        /\ gsrc[p] = gsrc[q]
        /\ ReturnedAfterFailure(p)
        /\ gcache[p] /\ ghist[p].read
        /\ ghist[p].resolved

-----------------------------------------------------------------------------
(* The overlap check of validateVPC, checked under SpecV *)

\* the addresses of a CIDR: those that agree with its address on the prefix
AddressesOf(cidr) ==
    {a \in 0..(Pow2(AddrBits) - 1) :
        a \div Pow2(AddrBits - cidr.bits) = cidr.ip \div Pow2(AddrBits - cidr.bits)}

\* the config is a project and one VPC whose subnets all have valid CIDRs
OnlyValidSubnets(c) ==
    /\ ~IsNil(c.Networking)
    /\ [c EXCEPT !.Networking = Nil] = BaseConfig
    /\ [Deref(c.Networking) EXCEPT !.Vpcs = <<>>] = NoNetworking
    /\ Len(Deref(c.Networking).Vpcs) = 1
    /\ \A i \in DOMAIN Deref(c.Networking).Vpcs[1].Subnets :
           LET subnet == Deref(c.Networking).Vpcs[1].Subnets[i]
           IN /\ subnet.Cidr.bits \in 0..AddrBits
              /\ subnet.Cidr.ip \in 0..(Pow2(AddrBits) - 1)
              /\ subnet.SecondaryRanges = <<>>

\* the pairs of subnets of the VPC whose ranges have an address in common
SharingPairs(c) ==
    LET subnets == Deref(c.Networking).Vpcs[1].Subnets
    IN {p \in (DOMAIN subnets) \X (DOMAIN subnets) :
           /\ p[1] < p[2]
           /\ AddressesOf(subnets[p[1]].Cidr) \cap AddressesOf(subnets[p[2]].Cidr) # {}}

RejectedForOverlap ==
    /\ VErr # Nil
    /\ Cause(VErr).msg \in {"duplicate CIDR range in subnet",
                             "CIDR range in subnet overlaps with existing range"}

\* C30: for subnets with valid CIDRs the overlap check of validateVPC is
\* exact: the VPC is rejected if and only if the address ranges of two of
\* its subnets have an address in common
C30_OverlapCheckExact ==
    (Validated /\ OnlyValidSubnets(cfg)) =>
        /\ SharingPairs(cfg) # {} => RejectedForOverlap
        /\ SharingPairs(cfg) = {} => VErr = Nil

\* the VPC is rejected for two subnets written with different CIDRs, one of
\* them with an address that is not the base of its range
C30_Witness ==
    /\ Validated
    /\ OnlyValidSubnets(cfg)
    /\ RejectedForOverlap
    /\ \E p \in SharingPairs(cfg) :
          LET subnets == Deref(cfg.Networking).Vpcs[1].Subnets
          IN /\ subnets[p[1]].Cidr # subnets[p[2]].Cidr
             /\ subnets[p[2]].Cidr.ip \notin
                    {Min(AddressesOf(subnets[p[1]].Cidr)), Min(AddressesOf(subnets[p[2]].Cidr))}

====
